---- MODULE Spec2Model ----
(***************************************************************************)
(* LINKCATCHER media acquisition pipeline.                                 *)
(*                                                                         *)
(* Spec     the server: intake (POST /api/inbox), the download job of the  *)
(*          item (Downloader.start / run) and DELETE /api/items/:id.       *)
(* SpecCtl  the Downloader used directly: start and cancel called in any   *)
(*          order for an item that already exists.                         *)
(* SpecFetch  one call of fetchWithRedirects against a network of URLs.    *)
(*                                                                         *)
(* The state is that of ONE item id.  Downloader.jobs, Downloader.         *)
(* jobOptions, the items table and the storage tree are all keyed by the   *)
(* item id and no operation reads or writes the entry of another id, so    *)
(* the variables below are the entries of that id.                         *)
(*                                                                         *)
(* Every action is one turn of the Node event loop: the code from one      *)
(* await (or callback) to the next, with everything it does synchronously. *)
(* Byte counts are in units of one chunk.  The title column is left out:   *)
(* it is written but never read by the pipeline.                           *)
(***************************************************************************)
EXTENDS Integers, Sequences, FiniteSets, TLC

\* ------------------------------------------------------------------ bounds
MaxCalls == 3         \* start()/cancel() calls made by the caller (SpecCtl)
MaxSegs == 2          \* unique resources of one media playlist

\* Runs that can be in flight together within MaxCalls calls: each run after
\* the first needs a cancel() before the start() that begins it.
MaxRuns == (MaxCalls + 1) \div 2

\* src/config.ts, scaled to chunks: a byte count is a number of chunks, the
\* cap is two chunks and progress is persisted every two chunks.  A job can
\* receive one chunk more than the cap, so that exceeding it happens.
MAX_DOWNLOAD_BYTES == 2
PROGRESS_UPDATE_STEP_BYTES == 2
MaxChunks == MAX_DOWNLOAD_BYTES + 1

\* src/config.ts, scaled: a media playlist may list two segments.  Playlists
\* have up to two lines more than that, so that a playlist over the limit
\* can carry one more line of any kind.
MAX_HLS_SEGMENTS == 2
MaxLines == MAX_HLS_SEGMENTS + 2

\* A root playlist has up to four lines, enough for two variants; the peak
\* and the average bandwidths a variant can declare.
MaxMasterLines == 4
Bandwidths == {2, 3}
Averages == {1, 2}

\* ------------------------------------------------------------------- values
\* the row does not exist
NoItem == [absent |-> TRUE]
Null == "null"
NoRun == 0
NoOptions == "absent"
NoFormat == "undefined"

DownloadTypes == {"file", "hls", "youtube", "instagram", "rutube", "ok", "vk"}
ItemTypes == DownloadTypes \cup {"unsupported"}
HlsResolved == {"rutube", "ok", "vk"}
Terminal == {"ready", "unsupported", "error"}
FormatIds == {NoFormat, "fmt"}

\* ------------------------------------------------------------------- errors
\* An error is its class name and its message.
Err(name, message) == [name |-> name, message |-> message]
NoErr == Err("none", "")

\* A variant that takes the timeout of a request for a cancellation.
isAbortErrorOrTimeout(err) == err.name \in {"AbortError", "TimeoutError"}

\* downloader.ts isAbortError
isAbortError(err) == err.name = "AbortError"

\* A variant that knows the downloader's own error class only.
isTypedUnsupportedOwn(err) == err.name = "UnsupportedSourceError"

\* downloader.ts run(): the instanceof chain of the catch block
isTypedUnsupported(err) ==
    err.name \in {"UnsupportedSourceError", "InstagramUnsupportedError", "RutubeUnsupportedError"}

\* security.ts errorMessage
errorMessage(err) == IF err.message # "" THEN err.message ELSE "Unexpected error"

AbortError == Err("AbortError", "This operation was aborted")
\* What fetchWithRedirects throws besides the abort of the caller's signal:
\* the rejection of assertSafeUrl, and the timeout of mergeWithTimeoutSignal
\* (which stands for every failure of the request itself: like "fetch failed"
\* or the redirect limit it is an error that is neither typed nor an abort).
DnsError == Err("UserInputError", "host name not resolved")
TimeoutError == Err("TimeoutError", "The operation was aborted due to timeout")
EnoentError == Err("Error", "ENOENT")

\* A response that is not a redirect, by its status: 2xx, 401/403, other.
Resp(class) == [name |-> class, message |-> ""]
Responses == {Resp("ok"), Resp("auth"), Resp("http")}

\* ---------------------------------------------------------------- variables
VARIABLES
    item,        \* the row of the items table, or NoItem
    dir,         \* the storage directory STORAGE_DIR/<id> exists
    files,       \* names of the entries in it
    stored,      \* what the files in it hold: bytes of media, the references
                 \* of index.m3u8, and the runs that created a file in it
    jobs,        \* Downloader.jobs.get(id): the run whose AbortController is stored, or NoRun
    jobOptions,  \* Downloader.jobOptions.get(id), or NoOptions
    runs,        \* the runs begun by start(), in order: position, signal, locals
    intake,      \* the POST /api/inbox handler of the item
    del,         \* the DELETE /api/items/:id handler of the item
    calls,       \* start() and cancel() calls made so far, by kind (SpecCtl)
    fw,          \* the fetchWithRedirects call (SpecFetch)
    hls,         \* one ingestion of a media playlist, line by line (SpecHls)
    master,      \* the choice of the media playlist of one ingestion (SpecMaster)
    probe,       \* the detectSource call of the intake (SpecDetect)
    ig,          \* one call of resolveInstagramMedia (SpecIg)
    vk,          \* one call of resolveVkMedia (SpecVk)
    transcode    \* GET /download/:id of a ready HLS item (SpecDownload)

vars == <<item, dir, files, stored, jobs, jobOptions, runs, intake, del, calls, fw, hls, master, probe, ig, vk, transcode>>
jobVars == <<item, dir, files, stored, jobs, jobOptions, runs, intake, del, calls, hls, master, probe, ig, vk, transcode>>

\* The directory holds no file.  by: for every file, the run that created it
\* or opened it for writing last.
Empty == [bytes |-> 0, index |-> {}, by |-> {}]

\* db.ts updateItem: UPDATE ... WHERE id = @id changes nothing when the row is gone
updateItem(row, patch) ==
    IF row = NoItem THEN NoItem
    ELSE [f \in DOMAIN row |-> IF f \in DOMAIN patch THEN patch[f] ELSE row[f]]

\* db.ts createItem
createItem(finalUrl, type, status) ==
    [status |-> status, type |-> type, reason |-> Null, sizeBytes |-> 0, finalUrl |-> finalUrl]

IdleRun ==
    [pc |-> "idle", aborted |-> FALSE, type |-> "unsupported", format |-> NoFormat,
     err |-> NoErr, n |-> 0, persisted |-> 0, seg |-> 0, reset |-> FALSE,
     over |-> FALSE, sent |-> FALSE, got |-> "none", term |-> 0, exits |-> <<>>]

\* got: the class of the response that made the run fail, if one did.
Refused(run, res) == [run EXCEPT !.got = res.name]

Running(r) == runs[r].pc \notin {"idle", "done"}

Started == {r \in 1..MaxRuns : runs[r].pc # "idle"}

\* ------------------------------------------------------- Downloader: start
\* The await a fresh run reaches first, by item type (run(), lines 597-613).
FirstPc(type) ==
    IF type \in {"file", "hls", "youtube"} THEN "resetRm"
    ELSE IF type \in {"instagram", "rutube", "ok", "vk"} THEN "resolve"
    ELSE "cleanup"

\* resolveVkMedia calls fetch for its first request before its first await;
\* every other request of a job goes through fetchWithRedirects, which awaits
\* assertSafeUrl before it calls fetch.
FirstSent(type) == type = "vk"

\* A variant without the guard on the jobs map.
startUnguarded(snapshot, options, row) ==
    LET r == Cardinality(Started) + 1 IN
    /\ r <= MaxRuns
    /\ jobs' = r
    /\ jobOptions' = options
    /\ item' = updateItem(row, [status |-> "downloading", reason |-> Null])
    /\ runs' = [runs EXCEPT ![r] =
           [IdleRun EXCEPT !.pc = FirstPc(snapshot.type), !.type = snapshot.type,
                           !.format = options, !.sent = FirstSent(snapshot.type)]]

\* Downloader.start(item, options) with run() up to its first await.
\* row: the row as the caller left it.
start(snapshot, options, row) ==
    IF jobs # NoRun
    THEN item' = row /\ UNCHANGED <<jobs, jobOptions, runs>>
    ELSE LET r == Cardinality(Started) + 1 IN
         /\ r <= MaxRuns
         /\ jobs' = r
         /\ jobOptions' = options
         /\ item' = updateItem(row, [status |-> "downloading", reason |-> Null])
         /\ runs' = [runs EXCEPT ![r] =
                [IdleRun EXCEPT
                    !.pc = FirstPc(snapshot.type),
                    !.type = snapshot.type,
                    !.format = options,
                    !.sent = FirstSent(snapshot.type),
                    !.err = IF snapshot.type \in DownloadTypes THEN NoErr
                            ELSE Err("UnsupportedSourceError", "unsupported item type")]]

\* Downloader.cancel(id)
cancel ==
    IF jobs # NoRun
    THEN /\ runs' = [runs EXCEPT ![jobs].aborted = TRUE]
         /\ jobs' = NoRun
    ELSE UNCHANGED <<runs, jobs>>

\* --------------------------------------------------------- Downloader: run
\* A run takes a step: its new locals and what it did to the row and to the
\* storage.  A run that reaches "done" has left run(), and the finally() of
\* start() removes whatever jobs and jobOptions hold for the id.
StepStored(r, newRun, newItem, newDir, newFiles, newStored) ==
    /\ runs' = [runs EXCEPT ![r] = newRun]
    /\ item' = newItem
    /\ dir' = newDir
    /\ files' = newFiles
    /\ stored' = newStored
    /\ jobs' = IF newRun.pc = "done" THEN NoRun ELSE jobs
    /\ jobOptions' = IF newRun.pc = "done" THEN NoOptions ELSE jobOptions
    /\ UNCHANGED <<intake, del, calls, fw, hls, master, probe, ig, vk, transcode>>

\* A step that leaves the content of the files as it is.
Step(r, newRun, newItem, newDir, newFiles) ==
    StepStored(r, newRun, newItem, newDir, newFiles, stored)

\* The run has left run(): its locals are gone.  What stays is whether its
\* signal was fired and how many updates with a terminal status it issued.
Returned(run) == [IdleRun EXCEPT !.pc = "done", !.aborted = run.aborted, !.term = run.term]

\* A variant in which run() returns on every error.
ThrownUnmapped(run, err) == Returned(run)

\* An error reaches the catch block of run(): an AbortError ends the run,
\* anything else goes on to await cleanupItemStorage.
Thrown(run, err) ==
    IF isAbortError(err)
    THEN Returned(run)
    ELSE [run EXCEPT !.pc = "cleanup", !.err = err, !.sent = FALSE]

Throw(r, err) == Step(r, Thrown(runs[r], err), item, dir, files)

Goto(r, pc) == Step(r, [runs[r] EXCEPT !.pc = pc], item, dir, files)

\* The run has issued the update that carries a terminal status.
Wrote(run) == [Returned(run) EXCEPT !.term = @ + 1]

\* run(), lines 615-620: the download returned
Ready(r, finalUrl, sizeBytes, newFiles) ==
    Step(r, Wrote(runs[r]),
         updateItem(item, [finalUrl |-> finalUrl, sizeBytes |-> sizeBytes,
                           status |-> "ready", reason |-> Null]),
         dir, newFiles)

\* A variant that leaves the type column alone.
FailurePatchStatusOnly(err) ==
    IF isTypedUnsupported(err)
    THEN [status |-> "unsupported", reason |-> err.message]
    ELSE [status |-> "error", reason |-> errorMessage(err)]

\* The patch the catch block writes for a non-abort error (lines 628-644).
FailurePatch(err) ==
    IF isTypedUnsupported(err)
    THEN [type |-> "unsupported", status |-> "unsupported", reason |-> err.message]
    ELSE [status |-> "error", reason |-> errorMessage(err)]

\* A variant that writes the status without removing the directory.
CleanupKeepStorage(r) ==
    /\ runs[r].pc = "cleanup"
    /\ StepStored(r, Wrote(runs[r]), updateItem(item, FailurePatch(runs[r].err)), dir, files, stored)

\* run(), lines 626-644: cleanupItemStorage has finished, the status is written
Cleanup(r) ==
    /\ runs[r].pc = "cleanup"
    /\ StepStored(r, Wrote(runs[r]), updateItem(item, FailurePatch(runs[r].err)), FALSE, {}, Empty)

\* What awaiting fetchWithRedirects(url, {signal}) can yield.  sent: fetch
\* has been called for the URL.  Before that assertSafeUrl can reject; it does
\* not look at the signal, so its rejection is possible after an abort too.
\* fetch itself rejects with the abort reason once the signal has fired, at
\* once when it is called with a signal that has fired already.
FetchResults(run) ==
    IF ~run.sent THEN {DnsError} \cup (IF run.aborted THEN {AbortError} ELSE {})
    ELSE IF run.aborted THEN {AbortError}
    ELSE Responses \cup {TimeoutError}

\* The position of a run that awaits a request.
RequestPcs == {"resolve", "playlist", "variant", "fetch", "segFetch"}

\* fetchWithRedirects, lines 152-158: assertSafeUrl has returned and fetch is
\* called with the merged signal; the request goes out unless the signal has
\* fired (the rejection is the AbortError of FetchResults).
Send(r) ==
    /\ runs[r].pc \in RequestPcs
    /\ ~runs[r].sent
    /\ ~runs[r].aborted
    /\ Step(r, [runs[r] EXCEPT !.sent = TRUE], item, dir, files)

ResultIsError(res) == res \notin Responses

\* resetItemStorage: fs.rm, then fs.mkdir.  Neither looks at the signal.
ResetRm(r) ==
    /\ runs[r].pc = "resetRm"
    /\ StepStored(r, [runs[r] EXCEPT !.pc = "resetMkdir"], item, FALSE, {}, Empty)

AfterReset(type) ==
    IF type \in {"file", "instagram"} THEN "fetch"
    ELSE IF type = "youtube" THEN "attempt1"
    ELSE "mkSegDir"

ResetMkdir(r) ==
    /\ runs[r].pc = "resetMkdir"
    /\ Step(r, [runs[r] EXCEPT !.pc = AfterReset(runs[r].type), !.reset = TRUE], item, TRUE, files)

\* ------------------------------------------------------ platform resolvers
\* The class of the typed failure a resolver throws.
ResolverErrorName(type) ==
    IF type = "instagram" THEN "InstagramUnsupportedError" ELSE "RutubeUnsupportedError"

\* resolveVkMedia calls fetch directly (fetchVkManual), the others go through
\* fetchWithRedirects and so through assertSafeUrl.
ResolveResults(run) ==
    IF run.type = "vk"
    THEN (IF run.aborted THEN {AbortError} ELSE {Resp("ok"), Resp("http"), TimeoutError})
    ELSE FetchResults(run) \ {Resp("auth")}

\* A variant whose failure for a response that is not OK is a plain Error.
ResolveUntyped(r, res) ==
    /\ runs[r].pc = "resolve"
    /\ res \in ResolveResults(runs[r])
    /\ IF ResultIsError(res) THEN Throw(r, res)
       ELSE IF res = Resp("http")
       THEN Throw(r, Err("Error", "source not available"))
       ELSE IF runs[r].type = "instagram"
       THEN Step(r, [runs[r] EXCEPT !.pc = "resetRm", !.sent = FALSE],
                 updateItem(item, [finalUrl |-> "canonical"]), dir, files)
       ELSE Goto(r, "resolveBody")

\* The requests of the resolver: resolveInstagramMedia as a whole (it returns
\* the media URL or throws), the API or page request of resolveRutubeMedia
\* and resolveOkMedia, the five requests of resolveVkMedia.
Resolve(r, res) ==
    /\ runs[r].pc = "resolve"
    /\ res \in ResolveResults(runs[r])
    /\ IF ResultIsError(res) THEN Throw(r, res)
       ELSE IF res = Resp("http")
       THEN Throw(r, Err(ResolverErrorName(runs[r].type), "source not available"))
       ELSE IF runs[r].type = "instagram"
       THEN \* downloadInstagram, line 349, then resetItemStorage
            Step(r, [runs[r] EXCEPT !.pc = "resetRm", !.sent = FALSE],
                 updateItem(item, [finalUrl |-> "canonical"]), dir, files)
       ELSE Goto(r, "resolveBody")

\* Reading and parsing the body of the resolver's response.  resolveRutubeMedia
\* reads it inside try { await response.json() } catch { throw new
\* RutubeUnsupportedError }, so every rejection of the read, the abort of the
\* signal included, becomes the typed failure; resolveOkMedia and
\* resolveVkMedia await response.text() outside any try.
BodyResults(run) ==
    IF run.aborted THEN {AbortError} ELSE {Resp("ok"), Resp("unparsable"), TimeoutError}

ResolveBody(r, res) ==
    /\ runs[r].pc = "resolveBody"
    /\ res \in BodyResults(runs[r])
    /\ IF res = Resp("ok")
       THEN \* downloadResolvedPlatformHls, lines 372-375, then downloadHls
            Step(r, [runs[r] EXCEPT !.pc = "resetRm", !.sent = FALSE],
                 updateItem(item, [finalUrl |-> "media"]), dir, files)
       ELSE IF res = Resp("unparsable")
       THEN Throw(r, Err("RutubeUnsupportedError", "no HLS URL in the response"))
       ELSE IF runs[r].type = "rutube"
       THEN Throw(r, Err("RutubeUnsupportedError", "invalid JSON"))
       ELSE Throw(r, res)

\* ---------------------------------------------------------- HLS ingestion
\* downloadHls, line 391: fs.mkdir(segmentsDir, {recursive})
MkSegDir(r) ==
    /\ runs[r].pc = "mkSegDir"
    /\ Step(r, [runs[r] EXCEPT !.pc = "playlist"], item, TRUE, files \cup {"segments"})

\* What the parse of the fetched playlist text leads to (lines 397-414).
\* "media": a media playlist with resources within the limits.
ParseResults == {"master", "key", "none", "tooMany", "media"}

\* fetchPlaylistText for the root playlist ("playlist") and for the selected
\* variant ("variant"), with the parsing that follows it.
Playlist(r, res, parsed) ==
    /\ runs[r].pc \in {"playlist", "variant"}
    /\ res \in FetchResults(runs[r])
    /\ parsed \in ParseResults
    /\ IF ResultIsError(res) THEN Throw(r, res)
       ELSE IF res = Resp("auth")
       THEN Step(r, Thrown(Refused(runs[r], res),
                           Err("UnsupportedSourceError", "playlist needs authorization")),
                 item, dir, files)
       ELSE IF res = Resp("http")
       THEN Step(r, Thrown(Refused(runs[r], res), Err("Error", "playlist not loaded")),
                 item, dir, files)
       ELSE IF parsed = "master"
       THEN /\ runs[r].pc = "playlist"
            /\ Step(r, [runs[r] EXCEPT !.pc = "variant", !.sent = FALSE], item, dir, files)
       ELSE IF parsed = "key" THEN Throw(r, Err("UnsupportedSourceError", "EXT-X-KEY not supported"))
       ELSE IF parsed = "none" THEN Throw(r, Err("UnsupportedSourceError", "no playable segments"))
       ELSE IF parsed = "tooMany" THEN Throw(r, Err("UnsupportedSourceError", "segment limit exceeded"))
       ELSE Step(r, [runs[r] EXCEPT !.pc = "segMkdir", !.seg = 1, !.sent = FALSE], item, dir, files)

\* line 449: fs.mkdir(path.dirname(destination), {recursive})
SegMkdir(r) ==
    /\ runs[r].pc = "segMkdir"
    /\ Step(r, [runs[r] EXCEPT !.pc = "segFetch"], item, TRUE, files \cup {"segments"})

\* ------------------------------------------------------- request and stream
IsHls(type) == type \in {"hls"} \cup HlsResolved

\* The Content-Length takes the running total over the cap.
OverCap(run, declared) == run.n + declared > MAX_DOWNLOAD_BYTES

\* The tests of lines 304-305 and 468-469 on the Content-Length.
TooLarge(run, declared) ==
    IF IsHls(run.type) THEN declared > 0 /\ run.n + declared > MAX_DOWNLOAD_BYTES
    ELSE declared > MAX_DOWNLOAD_BYTES

\* A variant that does not look at the Content-Length.
FetchAnyLength(r, res, declared) ==
    /\ runs[r].pc \in {"fetch", "segFetch"}
    /\ res \in FetchResults(runs[r])
    /\ declared \in 0..(MaxChunks + 1)
    /\ IF ResultIsError(res) THEN Throw(r, res)
       ELSE IF res = Resp("auth")
       THEN Step(r, Thrown(Refused(runs[r], res),
                           Err("UnsupportedSourceError", "source needs authorization")),
                 item, dir, files)
       ELSE IF res = Resp("http")
       THEN Step(r, Thrown(Refused(runs[r], res), Err("Error", "media not downloaded")),
                 item, dir, files)
       ELSE Step(r, [runs[r] EXCEPT !.pc = "open", !.over = OverCap(runs[r], declared),
                                    !.sent = FALSE],
                 item, dir, files)

\* A variant without the test for 401 and 403.
FetchNoAuthCase(r, res, declared) ==
    /\ runs[r].pc \in {"fetch", "segFetch"}
    /\ res \in FetchResults(runs[r])
    /\ declared \in 0..(MaxChunks + 1)
    /\ IF ResultIsError(res) THEN Throw(r, res)
       ELSE IF res \in {Resp("auth"), Resp("http")}
       THEN Step(r, Thrown(Refused(runs[r], res), Err("Error", "media not downloaded")),
                 item, dir, files)
       ELSE IF TooLarge(runs[r], declared)
       THEN Step(r, Thrown([runs[r] EXCEPT !.over = OverCap(runs[r], declared)],
                           Err("UnsupportedSourceError", "size limit exceeded")),
                 item, dir, files)
       ELSE Step(r, [runs[r] EXCEPT !.pc = "open", !.over = OverCap(runs[r], declared),
                                    !.sent = FALSE],
                 item, dir, files)

\* The request of downloadDirectFromUrl (lines 287-307) and of one HLS
\* resource (lines 451-472).  declared: the Content-Length of the response;
\* over keeps, until the file is opened, whether it was over the cap.
Fetch(r, res, declared) ==
    /\ runs[r].pc \in {"fetch", "segFetch"}
    /\ res \in FetchResults(runs[r])
    /\ declared \in 0..(MaxChunks + 1)
    /\ IF ResultIsError(res) THEN Throw(r, res)
       ELSE IF res = Resp("auth")
       THEN Step(r, Thrown(Refused(runs[r], res),
                           Err("UnsupportedSourceError", "source needs authorization")),
                 item, dir, files)
       ELSE IF res = Resp("http")
       THEN Step(r, Thrown(Refused(runs[r], res), Err("Error", "media not downloaded")),
                 item, dir, files)
       ELSE IF TooLarge(runs[r], declared)
       THEN Step(r, Thrown([runs[r] EXCEPT !.over = OverCap(runs[r], declared)],
                           Err("UnsupportedSourceError", "size limit exceeded")),
                 item, dir, files)
       ELSE Step(r, [runs[r] EXCEPT !.pc = "open", !.over = OverCap(runs[r], declared),
                                    !.sent = FALSE],
                 item, dir, files)

\* segments/seg-NNNNN.<ext>
SegNames == <<"seg-1", "seg-2", "seg-3", "seg-4">>

\* The file a run of this type streams into.
FileName(run) ==
    IF IsHls(run.type) THEN SegNames[run.seg]
    ELSE IF run.type = "instagram" THEN "image"
    ELSE "video"

\* Run r creates the file or truncates it (flags: 'w').
CreatedBy(r, name) == {p \in stored.by : p[1] # name} \cup {<<name, r>>}

\* The directory the file of the run goes to exists.
ParentExists(run) == dir /\ (IsHls(run.type) => "segments" \in files)

\* streamResponseToFile, line 157: createWriteStream opens the file.  The open
\* was issued before any abort can arrive; it fails when the directory is gone.
Open(r) ==
    /\ runs[r].pc = "open"
    /\ IF ~ParentExists(runs[r]) THEN Throw(r, IF runs[r].aborted THEN AbortError ELSE EnoentError)
       ELSE StepStored(r, IF runs[r].aborted THEN Thrown(runs[r], AbortError)
                          ELSE [runs[r] EXCEPT !.pc = "stream", !.over = FALSE],
                       item, dir, files \cup {FileName(runs[r])},
                       [stored EXCEPT !.by = CreatedBy(r, FileName(runs[r]))])

\* The chunk the transform passed on reaches the file, if the file is still
\* an entry of the directory.
Written(run) ==
    IF FileName(run) \in files THEN [stored EXCEPT !.bytes = @ + 1] ELSE stored

\* A variant that passes the chunk on to the file before it looks at the total.
ChunkWrittenFirst(r) ==
    /\ runs[r].pc = "stream"
    /\ ~runs[r].aborted
    /\ runs[r].n < MaxChunks
    /\ LET total == runs[r].n + 1 IN
       IF total > MAX_DOWNLOAD_BYTES
       THEN StepStored(r, Thrown([runs[r] EXCEPT !.n = total],
                                 Err("UnsupportedSourceError", "size limit exceeded")),
                       item, dir, files, Written(runs[r]))
       ELSE StepStored(r, [runs[r] EXCEPT !.n = total], item, dir, files, Written(runs[r]))

\* One chunk passes the counting transform: the onChunk callbacks of
\* downloadDirectFromUrl (lines 320-331) and downloadHls (lines 474-485).
Chunk(r) ==
    /\ runs[r].pc = "stream"
    /\ ~runs[r].aborted
    /\ runs[r].n < MaxChunks
    /\ LET total == runs[r].n + 1 IN
       IF total > MAX_DOWNLOAD_BYTES
       THEN Step(r, Thrown([runs[r] EXCEPT !.n = total],
                           Err("UnsupportedSourceError", "size limit exceeded")),
                 item, dir, files)
       ELSE IF total - runs[r].persisted >= PROGRESS_UPDATE_STEP_BYTES
       THEN StepStored(r, [runs[r] EXCEPT !.n = total, !.persisted = total],
                       updateItem(item, [sizeBytes |-> total, status |-> "downloading"]),
                       dir, files, Written(runs[r]))
       ELSE StepStored(r, [runs[r] EXCEPT !.n = total], item, dir, files, Written(runs[r]))

\* The pipeline of streamResponseToFile rejects: the aborted signal errors
\* the body, or the connection fails.
StreamFail(r, err) ==
    /\ runs[r].pc = "stream"
    /\ err \in (IF runs[r].aborted THEN {AbortError} ELSE {TimeoutError})
    /\ Throw(r, err)

\* The pipeline resolves.  A direct download returns (lines 333-336, 357-360);
\* downloadHls goes on to the next entry of the Map or, when the resource
\* was the last one, to the rewritten playlist.  last: the Map of the
\* playlist has no further entry.
StreamEnd(r, last) ==
    /\ runs[r].pc = "stream"
    /\ ~runs[r].aborted
    /\ last \in BOOLEAN
    /\ ~last => (IsHls(runs[r].type) /\ runs[r].seg < MaxSegs)
    /\ IF IsHls(runs[r].type)
       THEN IF ~last
            THEN Step(r, [runs[r] EXCEPT !.pc = "segMkdir", !.seg = @ + 1], item, dir, files)
            ELSE Goto(r, "writeIndex")
       ELSE Ready(r, IF runs[r].type = "instagram" THEN "canonical" ELSE "final", runs[r].n, files)

\* A variant that reports the playlist ready without writing index.m3u8.
WriteIndexNotWritten(r) ==
    /\ runs[r].pc = "writeIndex"
    /\ Step(r, Wrote(runs[r]),
            updateItem(item, [finalUrl |-> "playlist", sizeBytes |-> runs[r].n,
                              status |-> "ready", reason |-> Null]),
            dir, files)

\* downloadHls, line 506: fs.writeFile(index.m3u8) takes no signal; the run
\* then returns and run() writes ready.
WriteIndex(r) ==
    /\ runs[r].pc = "writeIndex"
    /\ IF dir
       THEN StepStored(r, Wrote(runs[r]),
                       updateItem(item, [finalUrl |-> "playlist", sizeBytes |-> runs[r].n,
                                         status |-> "ready", reason |-> Null]),
                       dir, files \cup {"index.m3u8"},
                       [stored EXCEPT !.index = {SegNames[k] : k \in 1..runs[r].seg},
                                      !.by = CreatedBy(r, "index.m3u8")])
       ELSE Throw(r, EnoentError)

\* ------------------------------------------------- external downloader tool
\* youtube.ts runYoutubeDownload: the format expression asked for, and the
\* fallback expression of the second attempt.
Fallback == "18/best"
Requested(format) == IF format = NoFormat THEN "best[ext=mp4]/18/best" ELSE format

\* A progress line of the subprocess reaches onLine (downloadYoutube, lines
\* 531-541): total is the size parsed from the line.  Lines already written
\* by the subprocess are delivered until it closes, aborted or not.
ProgressLine(r, total) ==
    /\ runs[r].pc \in {"attempt1", "attempt2"}
    /\ total \in 1..MaxChunks
    /\ total - runs[r].persisted >= PROGRESS_UPDATE_STEP_BYTES
    /\ Step(r, [runs[r] EXCEPT !.persisted = total],
            updateItem(item, [sizeBytes |-> total, status |-> "downloading"]), dir, files)

\* How the subprocess of one attempt closes.
Exits == {"zero", "zeroNoFile", "fragment", "failed"}

\* What the close handler of one attempt saw: the exit of the subprocess and
\* whether the signal had fired.
Closed(run, exit) == [run EXCEPT !.exits = Append(@, [code |-> exit, aborted |-> run.aborted])]

\* A variant that goes on to the fallback format after any failed exit.
AttemptCloseAnyFailure(r, exit, size) ==
    /\ runs[r].pc \in {"attempt1", "attempt2"}
    /\ exit \in Exits
    /\ size \in 0..MaxChunks
    /\ LET first == runs[r].pc = "attempt1"
           closed == Closed(runs[r], exit)
           failure == IF runs[r].aborted THEN AbortError
                      ELSE IF exit = "fragment" THEN Err("Error", "HTTP Error 403")
                      ELSE Err("Error", "youtube-dl failed")
           wrapped == Err("Error", "fallback format failed too")
       IN  IF ~runs[r].aborted /\ exit \in {"zero", "zeroNoFile"}
           THEN StepStored(r, [closed EXCEPT !.pc = "findFile"], item,
                           IF exit = "zero" THEN TRUE ELSE dir,
                           IF exit = "zero" THEN files \cup {"video"} ELSE files,
                           IF exit = "zero"
                           THEN [stored EXCEPT !.bytes = size, !.by = CreatedBy(r, "video")]
                           ELSE stored)
           ELSE IF ~first THEN Step(r, Thrown(closed, wrapped), item, dir, files)
           ELSE IF isAbortError(failure) THEN Step(r, Thrown(closed, failure), item, dir, files)
           ELSE IF Requested(runs[r].format) # Fallback
           THEN Step(r, [closed EXCEPT !.pc = "attempt2"], item, dir, files)
           ELSE Step(r, Thrown(closed, failure), item, dir, files)

\* The close event of the subprocess (runAttempt, lines 371-387) and what
\* runYoutubeDownload does with the result (lines 394-417).
\* size: the size of the file the tool has written when it exits with 0.
\* exit "fragment": a non-zero code with a message isFragmentRetryError takes.
AttemptClose(r, exit, size) ==
    /\ runs[r].pc \in {"attempt1", "attempt2"}
    /\ exit \in Exits
    /\ size \in 0..MaxChunks
    /\ LET first == runs[r].pc = "attempt1"
           closed == Closed(runs[r], exit)
           failure == IF runs[r].aborted THEN AbortError
                      ELSE IF exit = "fragment" THEN Err("Error", "HTTP Error 403")
                      ELSE Err("Error", "youtube-dl failed")
           wrapped == Err("Error", "fallback format failed too")
       IN  IF ~runs[r].aborted /\ exit \in {"zero", "zeroNoFile"}
           THEN StepStored(r, [closed EXCEPT !.pc = "findFile"], item,
                           IF exit = "zero" THEN TRUE ELSE dir,
                           IF exit = "zero" THEN files \cup {"video"} ELSE files,
                           IF exit = "zero"
                           THEN [stored EXCEPT !.bytes = size, !.by = CreatedBy(r, "video")]
                           ELSE stored)
           ELSE IF ~first THEN Step(r, Thrown(closed, wrapped), item, dir, files)
           ELSE IF isAbortError(failure) THEN Step(r, Thrown(closed, failure), item, dir, files)
           ELSE IF Requested(runs[r].format) # Fallback /\ exit = "fragment"
           THEN Step(r, [closed EXCEPT !.pc = "attempt2"], item, dir, files)
           ELSE Step(r, Thrown(closed, failure), item, dir, files)

\* A variant that takes the file whatever its size.
FindFileUncapped(r) ==
    /\ runs[r].pc = "findFile"
    /\ IF ~dir THEN Throw(r, EnoentError)
       ELSE IF "video" \notin files
       THEN Throw(r, Err("Error", "youtube-dl finished but no file found"))
       ELSE Ready(r, "detected", stored.bytes, files)

\* downloadYoutube, lines 544-557: readdir and stat, neither takes the signal.
FindFile(r) ==
    /\ runs[r].pc = "findFile"
    /\ IF ~dir THEN Throw(r, EnoentError)
       ELSE IF "video" \notin files
       THEN Throw(r, Err("Error", "youtube-dl finished but no file found"))
       ELSE IF stored.bytes > MAX_DOWNLOAD_BYTES
       THEN Throw(r, Err("UnsupportedSourceError", "size limit exceeded"))
       ELSE Ready(r, "detected", stored.bytes, files)

RunNext(r) ==
    \/ \E res \in FetchResults(runs[r]) \cup ResolveResults(runs[r]) : Resolve(r, res)
    \/ \E res \in BodyResults(runs[r]) : ResolveBody(r, res)
    \/ ResetRm(r)
    \/ ResetMkdir(r)
    \/ Send(r)
    \/ MkSegDir(r)
    \/ \E res \in FetchResults(runs[r]), parsed \in ParseResults :
          /\ (ResultIsError(res) \/ res # Resp("ok")) => parsed = "media"
          /\ Playlist(r, res, parsed)
    \/ SegMkdir(r)
    \/ \E res \in FetchResults(runs[r]), declared \in 0..(MaxChunks + 1) :
          /\ (ResultIsError(res) \/ res # Resp("ok")) => declared = 0
          /\ Fetch(r, res, declared)
    \/ Open(r)
    \/ Chunk(r)
    \/ \E err \in {AbortError, TimeoutError} : StreamFail(r, err)
    \/ \E last \in BOOLEAN : StreamEnd(r, last)
    \/ WriteIndex(r)
    \/ \E total \in 1..MaxChunks : ProgressLine(r, total)
    \/ \E exit \in Exits, size \in 0..MaxChunks :
          /\ exit # "zero" => size = 0
          /\ AttemptClose(r, exit, size)
    \/ FindFile(r)
    \/ Cleanup(r)

\* ------------------------------------------------------------------ server
\* What detectSource returns or throws.  Every unsupported result the
\* adapters and the probe build carries a reason.
Detected(type, reason) == [type |-> type, reason |-> reason, err |-> NoErr]
DetectThrew(err) == [type |-> "unsupported", reason |-> Null, err |-> err]
UnsafeUrl == Err("UserInputError", "private network URLs are blocked")
ProbeFailed == Err("Error", "HEAD/GET probe failed")
DetectResults ==
    {Detected(t, Null) : t \in DownloadTypes}
    \cup {Detected("unsupported", m) : m \in {"wrong path", "platform not supported", "not a media source"}}
    \cup {DetectThrew(UnsafeUrl), DetectThrew(ProbeFailed)}

\* detected.reason ?? '...'
Coalesce(value, default) == IF value = Null THEN default ELSE value

NoIntake == [pc |-> "none", format |-> NoFormat]

\* POST /api/inbox, lines 820-856: the row is created, detectSource is awaited
PostInbox(format) ==
    /\ intake.pc = "none"
    /\ format \in FormatIds
    /\ item = NoItem
    /\ item' = createItem("submitted", "unsupported", "queued")
    /\ intake' = [pc |-> "detect", format |-> format]
    /\ UNCHANGED <<dir, files, stored, jobs, jobOptions, runs, del, calls, fw, hls, master, probe, ig, vk, transcode>>

\* lines 870-901: the handler after detection (and the metadata lookup)
IntakeFinish(det) ==
    IF det.type = "unsupported"
    THEN /\ item' = updateItem(item, [finalUrl |-> "detected", type |-> "unsupported",
                                     status |-> "unsupported",
                                     reason |-> Coalesce(det.reason, "unsupported source URL")])
         /\ UNCHANGED <<jobs, jobOptions, runs>>
    ELSE LET queuedItem == updateItem(item, [finalUrl |-> "detected", type |-> det.type,
                                            status |-> "queued", reason |-> Null])
         IN  IF queuedItem = NoItem
             THEN item' = queuedItem /\ UNCHANGED <<jobs, jobOptions, runs>>
             ELSE start(queuedItem,
                        IF queuedItem.type = "youtube" THEN intake.format ELSE NoFormat,
                        queuedItem)

\* lines 902-917: the catch block of the handler
IntakeFailed(err) ==
    /\ item' = updateItem(item, [type |-> "unsupported",
                                status |-> IF err.name = "UserInputError" THEN "unsupported" ELSE "error",
                                reason |-> errorMessage(err)])
    /\ UNCHANGED <<jobs, jobOptions, runs>>

\* lines 856-868: what the handler does with the outcome of detectSource
IntakeSettled(det) ==
    IF det.err # NoErr
    THEN IntakeFailed(det.err) /\ intake' = [intake EXCEPT !.pc = "done"]
    ELSE IF det.type = "youtube"
    THEN /\ intake' = [intake EXCEPT !.pc = "ytmeta"]
         /\ UNCHANGED <<item, jobs, jobOptions, runs>>
    ELSE IntakeFinish(det) /\ intake' = [intake EXCEPT !.pc = "done"]

\* detectSource settles
IntakeDetect(det) ==
    /\ intake.pc = "detect"
    /\ det \in DetectResults
    /\ IntakeSettled(det)
    /\ UNCHANGED <<dir, files, stored, del, calls, fw, hls, master, probe, ig, vk, transcode>>

\* getYoutubeFormats settles; its failure is swallowed (lines 859-868)
IntakeYtMeta ==
    /\ intake.pc = "ytmeta"
    /\ IntakeFinish(Detected("youtube", Null))
    /\ intake' = [intake EXCEPT !.pc = "done"]
    /\ UNCHANGED <<dir, files, stored, del, calls, fw, hls, master, probe, ig, vk, transcode>>

\* DELETE /api/items/:id, lines 968-975: the row exists, the job is
\* cancelled, fs.rm is awaited
DeleteBegin ==
    /\ del = "none"
    /\ item # NoItem
    /\ cancel
    /\ del' = "rm"
    /\ UNCHANGED <<item, dir, files, stored, jobOptions, intake, calls, fw, hls, master, probe, ig, vk, transcode>>

\* line 975: fs.rm removes the directory; the handler is still suspended
DeleteRm ==
    /\ del = "rm"
    /\ dir' = FALSE
    /\ files' = {}
    /\ stored' = Empty
    /\ del' = "removed"
    /\ UNCHANGED <<item, jobs, jobOptions, runs, intake, calls, fw, hls, master, probe, ig, vk, transcode>>

\* lines 976-978: the handler resumes and deletes the row
DeleteItem ==
    /\ del = "removed"
    /\ item' = NoItem
    /\ del' = "done"
    /\ UNCHANGED <<dir, files, stored, jobs, jobOptions, runs, intake, calls, fw, hls, master, probe, ig, vk, transcode>>

\* ------------------------------------------------------ download of an HLS item
\* server.ts, GET /download/:id for an item of an HLS type whose status is
\* ready.  hlsTranscodeJobs: the map holds a promise for the item.  ffmpeg:
\* the subprocess of transcodeLocalHlsToMp4 is running.  mp4: video.mp4 is
\* absent, partly written or complete.  playlist: index.m3u8 is in the
\* storage.  requests: the position of every request and the status it answered
\* (0: none yet).
MaxRequests == 3
Requests == 1..MaxRequests
TranscodeIdle ==
    [hlsTranscodeJobs |-> FALSE, ffmpeg |-> FALSE, mp4 |-> "absent", playlist |-> TRUE,
     requests |-> [q \in Requests |-> [pc |-> "idle", answer |-> 0]]]

TranscodeStep(next) ==
    /\ transcode' = next
    /\ UNCHANGED <<item, dir, files, stored, jobs, jobOptions, runs, intake, del, calls, fw,
                   hls, master, probe, ig, vk>>

At(q, pc) == transcode.requests[q].pc = pc
Moved(state, q, pc) == [state EXCEPT !.requests[q].pc = pc]
Answered400(state, q) == [state EXCEPT !.requests[q] = [pc |-> "done", answer |-> 400]]

\* lines 981-1009 and 560-564: the handler up to fileExists(outputPath)
DownloadBegin(q) ==
    /\ At(q, "idle")
    /\ item # NoItem /\ item.status = "ready" /\ item.type \in {"hls"} \cup HlsResolved
    /\ TranscodeStep(Moved(transcode, q, "outputExists"))

\* lines 564-570: video.mp4 is there, whatever it holds, and the function
\* returns; or it is not, and the playlist is looked for.
OutputExists(q) ==
    /\ At(q, "outputExists")
    /\ TranscodeStep(Moved(transcode, q,
            IF transcode.mp4 # "absent" THEN "stat" ELSE "playlistExists"))

\* lines 567-579: without the playlist the function throws; otherwise the
\* request joins the promise of the map or calls transcodeLocalHlsToMp4,
\* which spawns ffmpeg at once, and stores its promise.
PlaylistExists(q) ==
    /\ At(q, "playlistExists")
    /\ TranscodeStep(
          IF ~transcode.playlist THEN Answered400(transcode, q)
          ELSE [Moved(transcode, q, "running") EXCEPT !.hlsTranscodeJobs = TRUE, !.ffmpeg = TRUE])

\* ffmpeg -y ... video.mp4 opens its output before it has written it.
FfmpegOpen ==
    /\ transcode.ffmpeg
    /\ transcode.mp4 = "absent"
    /\ TranscodeStep([transcode EXCEPT !.mp4 = "partial"])

\* lines 541-557: ffmpeg closes (or could not be started); the promise
\* settles, finally() removes it from the map and every request that awaits
\* it goes on: to the second fileExists when it resolved, to the catch of
\* the handler (lines 1011-1014) when it rejected.
ExitCodes == {0, 1}
FfmpegClose(code) ==
    /\ transcode.ffmpeg
    /\ code \in ExitCodes
    /\ code = 0 => transcode.mp4 = "partial"
    /\ TranscodeStep(
          [transcode EXCEPT
              !.ffmpeg = FALSE,
              !.hlsTranscodeJobs = FALSE,
              !.mp4 = IF code = 0 THEN "complete" ELSE @,
              !.requests = [q \in Requests |->
                  IF @[q].pc # "running" THEN @[q]
                  ELSE IF code = 0 THEN [@[q] EXCEPT !.pc = "outputWritten"]
                  ELSE [pc |-> "done", answer |-> 400]]])

\* lines 579-584: fileExists(outputPath) after the transcode
OutputWritten(q) ==
    /\ At(q, "outputWritten")
    /\ TranscodeStep(IF transcode.mp4 = "absent" THEN Answered400(transcode, q)
                     ELSE Moved(transcode, q, "stat"))

\* lines 1031-1060: fs.stat, the headers, createReadStream(filePath).pipe(res)
Stat(q) ==
    /\ At(q, "stat")
    /\ TranscodeStep(
          IF transcode.mp4 = "absent"
          THEN [transcode EXCEPT !.requests[q] = [pc |-> "done", answer |-> 404]]
          ELSE Moved(transcode, q, "stream"))

\* line 1061: the stream has been piped to the response
StreamDone(q) ==
    /\ At(q, "stream")
    /\ TranscodeStep([transcode EXCEPT !.requests[q] = [pc |-> "done", answer |-> 200]])

\* ------------------------------------------------- the Downloader by itself
NoCalls == [start |-> 0, cancel |-> 0]

ApiStart(format) ==
    /\ calls.start + calls.cancel < MaxCalls
    /\ format \in FormatIds
    /\ item # NoItem
    /\ start(item, format, item)
    /\ calls' = [calls EXCEPT !.start = @ + 1]
    /\ UNCHANGED <<dir, files, stored, intake, del, fw, hls, master, probe, ig, vk, transcode>>

ApiCancel ==
    /\ calls.start + calls.cancel < MaxCalls
    /\ cancel
    /\ calls' = [calls EXCEPT !.cancel = @ + 1]
    /\ UNCHANGED <<item, dir, files, stored, jobOptions, intake, del, fw, hls, master, probe, ig, vk, transcode>>

\* ---------------------------------------------------------- Safe Fetch Layer
\* src/config.ts
MAX_REDIRECTS == 5

\* A parsed URL: protocol, whether username or password is set, and the host.
\* A host is a name (its labels; no labels: the empty hostname), an IPv4
\* literal (its first two octets, the only ones security.ts reads) or a
\* bracketed IPv6 literal.  The URL parser has already lower-cased the name
\* and normalised every numeric spelling of an IPv4 host to dotted decimal.
Url(scheme, creds, host) == [scheme |-> scheme, creds |-> creds, host |-> host]
Host(kind, labels, a, b) == [kind |-> kind, labels |-> labels, a |-> a, b |-> b]
NameHost(labels) == Host("name", labels, 0, 0)
V4Host(a, b) == Host("v4", <<>>, a, b)
V6Literal == Host("v6", <<"[::1]">>, 0, 0)
NoHost == NameHost(<<>>)

\* An address as dns.lookup reports it.  An IPv6 address is its text up to
\* an embedded dotted quad, and the first two octets of that quad.
\* first is the value of the first 16 bits of an IPv6 address.
Addr4(a, b) == [family |-> 4, text |-> <<>>, first |-> 0, dotted |-> TRUE, a |-> a, b |-> b]
Addr6(text, first, dotted, a, b) ==
    [family |-> 6, text |-> text, first |-> first, dotted |-> dotted, a |-> a, b |-> b]

StartsWith(text, prefix) ==
    Len(text) >= Len(prefix) /\ SubSeq(text, 1, Len(prefix)) = prefix

\* A variant without the carrier-grade NAT range.
isPrivateIpv4NoCgnat(a, b) ==
    \/ a = 10 \/ a = 127 \/ a = 0
    \/ (a = 169 /\ b = 254)
    \/ (a = 172 /\ b >= 16 /\ b <= 31)
    \/ (a = 192 /\ b = 168)
    \/ (a = 198 /\ (b = 18 \/ b = 19))
    \/ a >= 224

\* security.ts isPrivateIpv4, for a string that is a well-formed dotted quad
isPrivateIpv4(a, b) ==
    \/ a = 10 \/ a = 127 \/ a = 0
    \/ (a = 169 /\ b = 254)
    \/ (a = 172 /\ b >= 16 /\ b <= 31)
    \/ (a = 192 /\ b = 168)
    \/ (a = 100 /\ b >= 64 /\ b <= 127)
    \/ (a = 198 /\ (b = 18 \/ b = 19))
    \/ a >= 224

\* security.ts isPrivateIpv6.  What follows '::ffff:' goes to isPrivateIpv4,
\* which answers true for anything that is not a dotted quad.
isPrivateIpv6(ip) ==
    \/ (~ip.dotted /\ ip.text \in {<<":", ":", "1">>, <<":", ":">>})
    \/ StartsWith(ip.text, <<"f", "c">>) \/ StartsWith(ip.text, <<"f", "d">>)
    \/ StartsWith(ip.text, <<"f", "e", "8">>) \/ StartsWith(ip.text, <<"f", "e", "9">>)
    \/ StartsWith(ip.text, <<"f", "e", "a">>) \/ StartsWith(ip.text, <<"f", "e", "b">>)
    \/ (StartsWith(ip.text, <<":", ":", "f", "f", "f", "f", ":">>)
        /\ (ip.dotted => isPrivateIpv4(ip.a, ip.b)))

\* security.ts isPrivateIp
isPrivateIp(ip) ==
    IF ip.family = 4 THEN isPrivateIpv4(ip.a, ip.b)
    ELSE IF ip.family = 6 THEN isPrivateIpv6(ip)
    ELSE TRUE

\* net.isIP(hostname): a bracketed IPv6 literal is not an address to it
isIP(host) == IF host.kind = "v4" THEN 4 ELSE 0

\* assertSafeUrl, line 95: hostname === 'localhost' || endsWith('.localhost')
\* || endsWith('.local')
isLocalName(host) ==
    /\ host.kind = "name"
    /\ \/ host.labels = <<"localhost">>
       \/ (Len(host.labels) >= 2 /\ host.labels[Len(host.labels)] \in {"localhost", "local"})

\* assertSafeUrl up to its await (lines 89-105): the error it throws, "pass"
\* when it returns, "lookup" when it goes on to dns.lookup
BlockedScheme == Err("UserInputError", "only http(s) URLs are allowed")
BlockedName == Err("UserInputError", "local network URLs are forbidden")
BlockedLiteral == Err("UserInputError", "private network URLs are blocked")
BlockedRecord == Err("UserInputError", "private network targets are blocked")
Pass == Err("pass", "")
Lookup == Err("lookup", "")

assertSafeUrl(url) ==
    IF url.scheme \notin {"http:", "https:"} THEN BlockedScheme
    ELSE IF isLocalName(url.host) THEN BlockedName
    ELSE IF isIP(url.host) # 0
    THEN (IF isPrivateIp(Addr4(url.host.a, url.host.b)) THEN BlockedLiteral ELSE Pass)
    ELSE Lookup

\* What dns.lookup(hostname, {all, verbatim}) settles with.
\* NoLookup: assertSafeUrl has not asked.
NoLookup == [kind |-> "none", records |-> <<>>]
Failed == [kind |-> "failed", records |-> <<>>]
Answer(records) == [kind |-> "answered", records |-> records]

\* assertSafeUrl after its await (lines 107-122)
assertRecords(answer) ==
    IF answer.kind = "failed" \/ Len(answer.records) = 0 THEN DnsError
    ELSE IF \E i \in 1..Len(answer.records) : isPrivateIp(answer.records[i]) THEN BlockedRecord
    ELSE Pass

\* A variant that allows one iteration more.
HopAllowedOneMore(hop) == hop <= MAX_REDIRECTS + 1

\* fetchWithRedirects, line 151: the loop condition
HopAllowed(hop) == hop <= MAX_REDIRECTS

RedirectLimit == Err("Error", "too many redirects")
NoLocation == Err("Error", "redirect without Location")
FetchFailed == Err("TypeError", "fetch failed")
Returned200 == Err("returned", "")

FwIdle ==
    [pc |-> "idle", hop |-> 0, current |-> Url("http:", FALSE, NoHost), checked |-> FALSE,
     dns |-> NoLookup, requests |-> 0, redirects |-> 0, result |-> NoErr]

\* The call has settled: it returned the response or threw err.
FwDone(f, err) == [f EXCEPT !.pc = "done", !.result = err]

\* Line 154: fetch(current) is called.  checked: assertSafeUrl has returned
\* for this URL in this iteration.
FwRequest(f, answer) ==
    [f EXCEPT !.pc = "fetch", !.checked = TRUE, !.dns = answer, !.requests = @ + 1]

\* The head of one loop iteration, for the URL in f.current, up to the first
\* await that does not settle at once.
FwEnter(f) ==
    LET verdict == assertSafeUrl(f.current) IN
    IF ~HopAllowed(f.hop) THEN FwDone(f, RedirectLimit)
    ELSE IF verdict = Pass THEN FwRequest(f, NoLookup)
    ELSE IF verdict = Lookup THEN [f EXCEPT !.pc = "lookup"]
    ELSE FwDone(f, verdict)

\* The URLs and addresses the network of SpecFetch is made of: octets on
\* both sides of every range boundary of isPrivateIpv4, names of each kind,
\* every scheme with and without credentials.
OctetsA == {0, 9, 10, 11, 100, 126, 127, 128, 169, 172, 192, 198, 223, 224, 239, 240, 255}
OctetsB == {0, 15, 16, 17, 18, 19, 20, 31, 32, 63, 64, 127, 128, 167, 168, 169, 253, 254, 255}

LocalhostDot == NameHost(<<"localhost", "">>)
NameHosts ==
    {NameHost(<<"localhost">>), NameHost(<<"a", "localhost">>), NameHost(<<"printer", "local">>),
     NameHost(<<"example", "com">>), NameHost(<<"local">>), LocalhostDot}

Urls ==
    {Url("http:", FALSE, V4Host(a, b)) : a \in OctetsA, b \in OctetsB}
    \cup {Url(scheme, creds, host) : scheme \in {"http:", "https:"}, creds \in BOOLEAN,
                                     host \in NameHosts \cup {V6Literal, V4Host(8, 8), V4Host(10, 0)}}
    \cup {Url("ftp:", creds, host) : creds \in BOOLEAN,
                                    host \in {NameHost(<<"example", "com">>), V4Host(8, 8), NoHost}}
    \cup {Url("file:", FALSE, NoHost), Url("data:", FALSE, NoHost)}

Loopback6 == Addr6(<<":", ":", "1">>, 0, FALSE, 0, 0)
Mapped6(a, b) == Addr6(<<":", ":", "f", "f", "f", "f", ":">>, 0, TRUE, a, b)
Addresses ==
    {Addr4(8, 8), Addr4(93, 184), Addr4(10, 0), Addr4(127, 0), Addr4(169, 254), Addr4(172, 31),
     Addr4(192, 168), Addr4(100, 64), Addr4(224, 0),
     Loopback6,
     Addr6(<<":", ":">>, 0, FALSE, 0, 0),
     Addr6(<<"f", "c", "0", "0", ":", ":", "1">>, 64512, FALSE, 0, 0),
     Addr6(<<"f", "d", "1", "2", ":", ":", "1">>, 64786, FALSE, 0, 0),
     Addr6(<<"f", "e", "8", "0", ":", ":", "1">>, 65152, FALSE, 0, 0),
     Addr6(<<"f", "e", "b", "f", ":", ":", "1">>, 65215, FALSE, 0, 0),
     Addr6(<<"f", "e", "c", "0", ":", ":", "1">>, 65216, FALSE, 0, 0),
     Addr6(<<"f", "f", "0", "2", ":", ":", "1">>, 65282, FALSE, 0, 0),
     Addr6(<<"2", "0", "0", "1", ":", "d", "b", "8", ":", ":", "1">>, 8193, FALSE, 0, 0),
     Mapped6(10, 0), Mapped6(8, 8)}

\* What the resolver can answer for a host name: nothing resolves a
\* bracketed literal, and "localhost." is the loopback.
DnsAnswers(host) ==
    IF host.kind = "v6" THEN {Failed}
    ELSE IF host = LocalhostDot
    THEN {Failed, Answer(<<Addr4(127, 0)>>), Answer(<<Loopback6, Addr4(127, 0)>>)}
    ELSE {Failed, Answer(<<>>)}
         \cup {Answer(<<x>>) : x \in Addresses}
         \cup {Answer(<<x, y>>) : x \in Addresses, y \in Addresses}

AllAnswers == DnsAnswers(NameHost(<<"example", "com">>)) \cup DnsAnswers(LocalhostDot)

\* fetchWithRedirects is called (line 149 and the first iteration)
FwCall(url) ==
    /\ fw.pc = "idle"
    /\ url \in Urls
    /\ fw' = FwEnter([FwIdle EXCEPT !.current = url])
    /\ UNCHANGED jobVars

\* dns.lookup settles (lines 107-122), and fetch is called if nothing is thrown
FwLookup(answer) ==
    /\ fw.pc = "lookup"
    /\ answer \in DnsAnswers(fw.current.host)
    /\ fw' = IF assertRecords(answer) = Pass THEN FwRequest(fw, answer)
             ELSE FwDone([fw EXCEPT !.dns = answer], assertRecords(answer))
    /\ UNCHANGED jobVars

\* How the awaited fetch settles.  The Request constructor of fetch throws a
\* TypeError for a URL that includes credentials.
Outcomes == {"credentials", "failed", "final", "noLocation", "badLocation", "redirect"}

\* Lines 154-172: fetch settles; for a redirect with a Location, target is
\* new URL(location, current) and the next iteration begins.
FwResponse(outcome, target) ==
    /\ fw.pc = "fetch"
    /\ outcome \in Outcomes
    /\ target \in Urls
    /\ fw.current.creds <=> outcome = "credentials"
    /\ fw' = IF outcome = "credentials"
             THEN FwDone(fw, Err("TypeError", "URL includes credentials"))
             ELSE IF outcome = "failed" THEN FwDone(fw, FetchFailed)
             ELSE IF outcome = "final" THEN FwDone(fw, Returned200)
             ELSE IF outcome = "noLocation" THEN FwDone(fw, NoLocation)
             ELSE IF outcome = "badLocation" THEN FwDone(fw, Err("TypeError", "Invalid URL"))
             ELSE FwEnter([fw EXCEPT !.current = target, !.hop = @ + 1, !.redirects = @ + 1,
                                     !.checked = FALSE, !.dns = NoLookup])
    /\ UNCHANGED jobVars

\* ------------------------------------------- HLS ingestion, line by line
\* A line of the playlist text: its kind, the URI it carries and the rest of
\* its text (the other attributes of an #EXT-X-MAP tag, the white space
\* around the URI of a segment line).  A URI is the sequence of its path
\* segments, relative to the playlist.
LineWith(kind, uri, rest) == [kind |-> kind, uri |-> uri, rest |-> rest]
NoRest == ""
Line(kind, uri) == LineWith(kind, uri, NoRest)
NoUri == <<>>
SegmentUris == {<<"a">>, <<".", "a">>, <<"b">>}
MapUris == {<<"a">>, <<"i">>}
PlaylistLines ==
    {Line(k, NoUri) : k \in {"blank", "comment", "key", "map"}}
    \cup {Line("map", u) : u \in MapUris}
    \cup {Line("segment", u) : u \in SegmentUris}
    \cup {LineWith("map", <<"i">>, "BYTERANGE"), LineWith("segment", <<"b">>, "padded")}
Playlists == UNION {[1..n -> PlaylistLines] : n \in 1..MaxLines}

\* new URL(uri, mediaUrl).toString(): the "." segments are removed
absoluteUrl(uri) == SelectSeq(uri, LAMBDA s : s # ".")

Reference(kind, lineIndex, url) == [kind |-> kind, lineIndex |-> lineIndex, absoluteUrl |-> url]
KeyFound == [key |-> TRUE, references |-> <<>>]

\* The loop of parseMediaPlaylist from line index on.
RECURSIVE parseFrom(_, _, _)
parseFrom(lines, index, references) ==
    IF index > Len(lines) THEN [key |-> FALSE, references |-> references]
    ELSE LET line == lines[index] IN
         IF line.kind = "blank" THEN parseFrom(lines, index + 1, references)
         ELSE IF line.kind = "key" THEN KeyFound
         ELSE IF line.kind = "map"
         THEN parseFrom(lines, index + 1,
                        IF line.uri # NoUri
                        THEN Append(references, Reference("map", index, absoluteUrl(line.uri)))
                        ELSE references)
         ELSE IF line.kind = "comment" THEN parseFrom(lines, index + 1, references)
         ELSE parseFrom(lines, index + 1,
                        Append(references, Reference("segment", index, absoluteUrl(line.uri))))

\* A variant that passes over #EXT-X-KEY like over any other tag.
parseMediaPlaylistKeyAsTag(lines) ==
    parseFrom([i \in 1..Len(lines) |->
                  IF lines[i].kind = "key" THEN Line("comment", NoUri) ELSE lines[i]],
              1, <<>>)

parseMediaPlaylist(lines) == parseFrom(lines, 1, <<>>)

\* A variant that counts every segment URL once.
segmentsOnlyUnique(references) ==
    SelectSeq(references,
              LAMBDA ref : /\ ref.kind = "segment"
                           /\ \A k \in 1..Len(references) :
                                 references[k].absoluteUrl = ref.absoluteUrl
                                     => references[k].lineIndex >= ref.lineIndex)

\* downloadHls, line 406
segmentsOnly(references) == SelectSeq(references, LAMBDA ref : ref.kind = "segment")

\* segments/seg-NNNNN.ts and segments/map-NNNNN.bin
SegPaths == <<"segments/seg-1", "segments/seg-2", "segments/seg-3", "segments/seg-4",
              "segments/seg-5", "segments/seg-6">>
MapPaths == <<"segments/map-1", "segments/map-2", "segments/map-3", "segments/map-4",
              "segments/map-5", "segments/map-6">>
LocalPath(kind, counter) == IF kind = "segment" THEN SegPaths[counter] ELSE MapPaths[counter]

\* The Map of downloadHls: its entries in insertion order, and the counters.
NoResources == [entries |-> <<>>, segmentCounter |-> 0, mapCounter |-> 0]
Has(entries, url) == \E k \in 1..Len(entries) : entries[k].url = url
Get(entries, url) == entries[CHOOSE k \in 1..Len(entries) : entries[k].url = url]

Entry(ref, counter) ==
    [url |-> ref.absoluteUrl, kind |-> ref.kind, localPath |-> LocalPath(ref.kind, counter)]

\* One turn of the loop of lines 420-442 for a reference not yet in the Map.
Set(acc, ref) ==
    IF ref.kind = "segment"
    THEN [acc EXCEPT !.segmentCounter = @ + 1,
                     !.entries = Append(@, Entry(ref, acc.segmentCounter + 1))]
    ELSE [acc EXCEPT !.mapCounter = @ + 1,
                     !.entries = Append(@, Entry(ref, acc.mapCounter + 1))]

RECURSIVE resourceMapFrom(_, _, _)
resourceMapFrom(references, i, acc) ==
    IF i > Len(references) THEN acc.entries
    ELSE IF Has(acc.entries, references[i].absoluteUrl)
    THEN resourceMapFrom(references, i + 1, acc)
    ELSE resourceMapFrom(references, i + 1, Set(acc, references[i]))

\* A variant with one entry for every reference.
RECURSIVE resourceMapPerReference(_)
resourceMapPerReference(references) ==
    IF references = <<>> THEN <<>>
    ELSE LET front == SubSeq(references, 1, Len(references) - 1)
             ref == references[Len(references)]
         IN  Append(resourceMapPerReference(front),
                    Entry(ref, Len(SelectSeq(front, LAMBDA f : f.kind = ref.kind)) + 1))

\* downloadHls, lines 416-442
resourceMap(references) == resourceMapFrom(references, 1, NoResources)

\* A variant that replaces the whole line of an init segment too.
rewrittenLinesWholesale(lines, references, entries) ==
    [i \in 1..Len(lines) |->
        IF \E k \in 1..Len(references) :
              references[k].lineIndex = i /\ Has(entries, references[k].absoluteUrl)
        THEN LET ref == references[CHOOSE k \in 1..Len(references) : references[k].lineIndex = i]
             IN  Line(ref.kind, <<Get(entries, ref.absoluteUrl).localPath>>)
        ELSE lines[i]]

\* downloadHls, lines 488-504: the lines of index.m3u8.  The line of a
\* segment becomes the local path; in the line of an init segment the match
\* of /URI="([^"]+)"/i is replaced and the rest of the line stays.
rewrittenLines(lines, references, entries) ==
    [i \in 1..Len(lines) |->
        IF \E k \in 1..Len(references) :
              references[k].lineIndex = i /\ Has(entries, references[k].absoluteUrl)
        THEN LET ref == references[CHOOSE k \in 1..Len(references) : references[k].lineIndex = i]
                 localPath == Get(entries, ref.absoluteUrl).localPath
             IN  IF ref.kind = "segment" THEN Line("segment", <<localPath>>)
                 ELSE LineWith("map", <<localPath>>, lines[i].rest)
        ELSE lines[i]]

HlsIdle ==
    [pc |-> "idle", lines |-> <<>>, references |-> <<>>, resources |-> <<>>, next |-> 0,
     requested |-> <<>>, written |-> <<>>, disk |-> {}, index |-> <<>>,
     err |-> NoErr, status |-> "downloading", reason |-> Null]

HlsThrow(h, err) == [h EXCEPT !.pc = "cleanup", !.err = err]

\* downloadHls, lines 405-442: the media playlist text is parsed, the limits
\* are checked, the local names are assigned.
HlsParse ==
    /\ hls.pc = "parse"
    /\ LET parsed == parseMediaPlaylist(hls.lines) IN
       hls' = IF parsed.key
              THEN HlsThrow(hls, Err("UnsupportedSourceError", "EXT-X-KEY not supported"))
              ELSE IF Len(segmentsOnly(parsed.references)) = 0
              THEN HlsThrow(hls, Err("UnsupportedSourceError", "no playable segments"))
              ELSE IF Len(segmentsOnly(parsed.references)) > MAX_HLS_SEGMENTS
              THEN HlsThrow(hls, Err("UnsupportedSourceError", "segment limit exceeded"))
              ELSE [hls EXCEPT !.pc = "loop", !.references = parsed.references,
                               !.resources = resourceMap(parsed.references), !.next = 1]
    /\ UNCHANGED <<item, dir, files, stored, jobs, jobOptions, runs, intake, del, calls, fw, master, probe, ig, vk, transcode>>

\* What the request for one resource can yield.
ResourceResults == Responses \cup {TimeoutError}

\* downloadHls, lines 447-486: the next entry of the Map is requested and
\* streamed into its file.
HlsResource(res) ==
    /\ hls.pc = "loop"
    /\ res \in ResourceResults
    /\ LET entry == hls.resources[hls.next]
           asked == [hls EXCEPT !.requested = Append(@, entry.url)]
       IN  hls' = IF res = TimeoutError THEN HlsThrow(asked, res)
                  ELSE IF res = Resp("auth")
                  THEN HlsThrow(asked, Err("UnsupportedSourceError", "source needs authorization"))
                  ELSE IF res = Resp("http")
                  THEN HlsThrow(asked, Err("Error", "media not downloaded"))
                  ELSE [asked EXCEPT !.written = Append(@, entry.localPath),
                                     !.disk = @ \cup {entry.localPath},
                                     !.next = @ + 1,
                                     !.pc = IF hls.next = Len(hls.resources)
                                            THEN "rewrite" ELSE "loop"]
    /\ UNCHANGED <<item, dir, files, stored, jobs, jobOptions, runs, intake, del, calls, fw, master, probe, ig, vk, transcode>>

\* downloadHls, lines 488-511, and run(), lines 615-620
HlsRewrite ==
    /\ hls.pc = "rewrite"
    /\ hls' = [hls EXCEPT !.pc = "done",
                          !.index = rewrittenLines(hls.lines, hls.references, hls.resources),
                          !.disk = @ \cup {"index.m3u8"},
                          !.status = "ready"]
    /\ UNCHANGED <<item, dir, files, stored, jobs, jobOptions, runs, intake, del, calls, fw, master, probe, ig, vk, transcode>>

\* run(), lines 626-644
HlsCleanup ==
    /\ hls.pc = "cleanup"
    /\ hls' = [hls EXCEPT !.pc = "done", !.disk = {},
                          !.status = FailurePatch(hls.err).status,
                          !.reason = FailurePatch(hls.err).reason]
    /\ UNCHANGED <<item, dir, files, stored, jobs, jobOptions, runs, intake, del, calls, fw, master, probe, ig, vk, transcode>>

\* ------------------------------------------- HLS ingestion, master playlist
\* src/config.ts does not bound the variants; playlists of up to MaxMasterLines
\* lines hold two variants with their URI lines.
MasterAttr(name, value) == [name |-> name, value |-> value]

\* A line of the root playlist: an #EXT-X-STREAM-INF tag with its attribute
\* list in the order of the text, a URI line, another tag or comment, a blank
\* line.  Bandwidths are in units of 100 kbit/s.
MasterLine(kind, attrs, uri) == [kind |-> kind, attrs |-> attrs, uri |-> uri]
AttrLists ==
    {<<>>}
    \cup {<<MasterAttr("BANDWIDTH", b)>> : b \in Bandwidths}
    \cup {<<MasterAttr("BANDWIDTH", b), MasterAttr("AVERAGE-BANDWIDTH", a)>> :
              b \in Bandwidths, a \in Averages}
    \cup {<<MasterAttr("AVERAGE-BANDWIDTH", a), MasterAttr("BANDWIDTH", b)>> :
              b \in Bandwidths, a \in Averages}
VariantUris == {<<"low">>, <<"high">>}
MasterLines ==
    {MasterLine("inf", attrs, NoUri) : attrs \in AttrLists}
    \cup {MasterLine("uri", <<>>, u) : u \in VariantUris}
    \cup {MasterLine(k, <<>>, NoUri) : k \in {"comment", "blank"}}
Masters == UNION {[1..n -> MasterLines] : n \in 1..MaxMasterLines}

\* parseMasterVariants, lines 187-188: /BANDWIDTH=(\d+)/i finds the first
\* place of the line where the text BANDWIDTH= is followed by digits, which
\* the end of AVERAGE-BANDWIDTH= is as well.
matchesBandwidth(attr) == attr.name \in {"BANDWIDTH", "AVERAGE-BANDWIDTH"}

bandwidth(attrs) ==
    LET found == SelectSeq(attrs, matchesBandwidth)
    IN  IF found = <<>> THEN 0 ELSE found[1].value

\* The inner loop of parseMasterVariants (lines 190-205): the index of the
\* first line from j on that is neither blank nor begins with '#', 0 if none.
RECURSIVE candidate(_, _)
candidate(lines, j) ==
    IF j > Len(lines) THEN 0
    ELSE IF lines[j].kind = "uri" THEN j
    ELSE candidate(lines, j + 1)

\* The outer loop from line i on.  inf: the line of the tag, kept to tell
\* which tag a variant came from.
RECURSIVE variantsFrom(_, _)
variantsFrom(lines, i) ==
    IF i > Len(lines) THEN <<>>
    ELSE IF lines[i].kind # "inf" \/ candidate(lines, i + 1) = 0
    THEN variantsFrom(lines, i + 1)
    ELSE <<[bandwidth |-> bandwidth(lines[i].attrs),
            absoluteUrl |-> absoluteUrl(lines[candidate(lines, i + 1)].uri),
            inf |-> i]>>
         \o variantsFrom(lines, i + 1)

parseMasterVariants(lines) == variantsFrom(lines, 1)

\* downloadHls, line 399: variants.sort((a, b) => b.bandwidth - a.bandwidth)[0].
\* The sort is stable: of the variants with the highest bandwidth the first.
selected(variants) ==
    variants[CHOOSE i \in 1..Len(variants) :
                \A j \in 1..Len(variants) :
                    /\ variants[j].bandwidth <= variants[i].bandwidth
                    /\ j < i => variants[j].bandwidth < variants[i].bandwidth]

RootUrl == <<"root">>
NoVariant == [bandwidth |-> 0, absoluteUrl |-> NoUri, inf |-> 0]

MasterIdle ==
    [pc |-> "idle", lines |-> <<>>, variants |-> <<>>, selected |-> NoVariant,
     requested |-> <<>>, mediaPlaylistUrl |-> NoUri, err |-> NoErr]

\* downloadHls, lines 393-399: the root playlist has been fetched; its
\* variants are parsed and, if there are any, the selected one is requested.
MasterRoot(res) ==
    /\ master.pc = "root"
    /\ res \in ResourceResults
    /\ LET variants == parseMasterVariants(master.lines)
           asked == [master EXCEPT !.requested = Append(@, RootUrl)]
       IN  master' =
               IF res = TimeoutError THEN [asked EXCEPT !.pc = "failed", !.err = res]
               ELSE IF res = Resp("auth")
               THEN [asked EXCEPT !.pc = "failed",
                        !.err = Err("UnsupportedSourceError", "playlist needs authorization")]
               ELSE IF res = Resp("http")
               THEN [asked EXCEPT !.pc = "failed", !.err = Err("Error", "playlist not loaded")]
               ELSE IF Len(variants) > 0
               THEN [asked EXCEPT !.pc = "variant", !.variants = variants,
                                  !.selected = selected(variants)]
               ELSE [asked EXCEPT !.pc = "media", !.mediaPlaylistUrl = RootUrl]
    /\ UNCHANGED <<item, dir, files, stored, jobs, jobOptions, runs, intake, del, calls, fw, hls, probe, ig, vk, transcode>>

\* downloadHls, lines 400-402: the playlist of the selected variant arrives
MasterVariant(res) ==
    /\ master.pc = "variant"
    /\ res \in ResourceResults
    /\ LET asked == [master EXCEPT !.requested = Append(@, master.selected.absoluteUrl)]
       IN  master' =
               IF res = TimeoutError THEN [asked EXCEPT !.pc = "failed", !.err = res]
               ELSE IF res = Resp("auth")
               THEN [asked EXCEPT !.pc = "failed",
                        !.err = Err("UnsupportedSourceError", "playlist needs authorization")]
               ELSE IF res = Resp("http")
               THEN [asked EXCEPT !.pc = "failed", !.err = Err("Error", "playlist not loaded")]
               ELSE [asked EXCEPT !.pc = "media",
                                  !.mediaPlaylistUrl = master.selected.absoluteUrl]
    /\ UNCHANGED <<item, dir, files, stored, jobs, jobOptions, runs, intake, del, calls, fw, hls, probe, ig, vk, transcode>>

\* ------------------------------------------------------ source detection
\* A URL as the adapters see it after validateHttpUrl: the labels of the
\* host name (the URL parser has lower-cased them) and the segments of the
\* path.  <<>> is the path "/"; a last segment "" is a trailing slash.
PageUrl(host, path) == [host |-> host, path |-> path]

YOUTUBE_SUFFIXES == {<<"youtube", "com">>, <<"youtu", "be">>}
INSTAGRAM_SUFFIXES == {<<"instagram", "com">>, <<"instagr", "am">>}
RUTUBE_SUFFIXES == {<<"rutube", "ru">>}
OK_SUFFIXES == {<<"ok", "ru">>}
VK_SUFFIXES == {<<"vkvideo", "ru">>, <<"vk", "com">>, <<"vk", "ru">>}
BLOCKED_PLATFORMS ==
    <<[suffix |-> <<"tiktok", "com">>, title |-> "TikTok"],
      [suffix |-> <<"facebook", "com">>, title |-> "Facebook"],
      [suffix |-> <<"x", "com">>, title |-> "X/Twitter"],
      [suffix |-> <<"twitter", "com">>, title |-> "X/Twitter"],
      [suffix |-> <<"vimeo", "com">>, title |-> "Vimeo"]>>

\* lower === suffix || lower.endsWith('.' + suffix)
hasHostSuffix(hostname, suffixes) ==
    \E suffix \in suffixes :
        /\ Len(hostname) >= Len(suffix)
        /\ SubSeq(hostname, Len(hostname) - Len(suffix) + 1, Len(hostname)) = suffix

isYoutubeHost(hostname) == hasHostSuffix(hostname, YOUTUBE_SUFFIXES)
isInstagramHost(hostname) == hasHostSuffix(hostname, INSTAGRAM_SUFFIXES)
isRutubeHost(hostname) == hasHostSuffix(hostname, RUTUBE_SUFFIXES)
isOkHost(hostname) == hasHostSuffix(hostname, OK_SUFFIXES)
isVkHost(hostname) == hasHostSuffix(hostname, VK_SUFFIXES)

\* The path segments of the model and the character classes the path rules
\* test on them.
Segments ==
    {"p", "reel", "video", "videoembed", "playlist", "private", "123", "abc",
     "video-1_2", "clip.mp4", "CLIP.MP4", "list.m3u8", "page.html", ""}
\* [a-zA-Z0-9_-]+ and [a-z0-9]+ (case-insensitive) match at the start
WordStart == Segments \ {""}
AlnumStart == Segments \ {""}
\* \d+ matches at the start
DigitStart == {"123"}
\* video(-?\d+_\d+) matches at the start
VkVideoStart == {"video-1_2"}

\* /\/(p|reel)\/[a-zA-Z0-9_-]+/i, not anchored
INSTAGRAM_MEDIA_PATH(pathname) ==
    \E k \in 1..(Len(pathname) - 1) :
        pathname[k] \in {"p", "reel"} /\ pathname[k + 1] \in WordStart

\* /^\/video\/(?:private\/)?([a-z0-9]+)\/?/i
isRutubeVideoPath(pathname) ==
    /\ Len(pathname) >= 2
    /\ pathname[1] = "video"
    /\ \/ pathname[2] \in AlnumStart
       \/ pathname[2] = "private" /\ Len(pathname) >= 3 /\ pathname[3] \in AlnumStart

\* /^\/(?:video|videoembed)\/(\d+)/i
isOkVideoPath(pathname) ==
    /\ Len(pathname) >= 2
    /\ pathname[1] \in {"video", "videoembed"}
    /\ pathname[2] \in DigitStart

\* /^\/(?:playlist\/.+\/)?video(-?\d+_\d+)/i
isVkVideoPath(pathname) ==
    /\ Len(pathname) >= 1
    /\ \/ pathname[1] \in VkVideoStart
       \/ /\ pathname[1] = "playlist"
          /\ \E k \in 3..Len(pathname) :
                pathname[k] \in VkVideoStart /\ (k = 3 => pathname[2] # "")

\* What an adapter returns when the host is not its own.
NoMatch == [type |-> "none"]

InstagramPathReason == "Instagram: only /p/<shortcode>/ and /reel/<shortcode>/ links are supported"
RutubePathReason == "RuTube: only /video/<id>/ and /video/private/<id>/ links are supported"
OkPathReason == "OK: only /video/<id> and /videoembed/<id> links are supported"
VkPathReason == "VK Video: only /video<owner>_<id> and /playlist/.../video<owner>_<id> links are supported"
\* `${blocked.title} ...`
BlockedReason(title) ==
    CASE title = "TikTok" -> "TikTok is not supported in this service"
      [] title = "Facebook" -> "Facebook is not supported in this service"
      [] title = "X/Twitter" -> "X/Twitter is not supported in this service"
      [] title = "Vimeo" -> "Vimeo is not supported in this service"

detectYoutubeSource(parsedUrl) ==
    IF ~isYoutubeHost(parsedUrl.host) THEN NoMatch ELSE Detected("youtube", Null)

detectInstagramSource(parsedUrl) ==
    IF ~isInstagramHost(parsedUrl.host) THEN NoMatch
    ELSE IF ~INSTAGRAM_MEDIA_PATH(parsedUrl.path) THEN Detected("unsupported", InstagramPathReason)
    ELSE Detected("instagram", Null)

\* A variant that leaves a RuTube URL of another shape to the adapters after it.
detectRutubeSourceLenient(parsedUrl) ==
    IF ~isRutubeHost(parsedUrl.host) \/ ~isRutubeVideoPath(parsedUrl.path) THEN NoMatch
    ELSE Detected("rutube", Null)

detectRutubeSource(parsedUrl) ==
    IF ~isRutubeHost(parsedUrl.host) THEN NoMatch
    ELSE IF ~isRutubeVideoPath(parsedUrl.path) THEN Detected("unsupported", RutubePathReason)
    ELSE Detected("rutube", Null)

detectOkSource(parsedUrl) ==
    IF ~isOkHost(parsedUrl.host) THEN NoMatch
    ELSE IF ~isOkVideoPath(parsedUrl.path) THEN Detected("unsupported", OkPathReason)
    ELSE Detected("ok", Null)

detectVkSource(parsedUrl) ==
    IF ~isVkHost(parsedUrl.host) THEN NoMatch
    ELSE IF ~isVkVideoPath(parsedUrl.path) THEN Detected("unsupported", VkPathReason)
    ELSE Detected("vk", Null)

\* BLOCKED_PLATFORMS.find(...)
findBlockedPlatform(hostname) ==
    SelectSeq(BLOCKED_PLATFORMS, LAMBDA platform : hasHostSuffix(hostname, {platform.suffix}))

detectBlockedPlatformSource(parsedUrl) ==
    LET blocked == findBlockedPlatform(parsedUrl.host)
    IN  IF blocked = <<>> THEN NoMatch
        ELSE Detected("unsupported", BlockedReason(blocked[1].title))

\* The adapters in the order detectSourceByAdapters consults them.
fastMatches(parsed) ==
    <<detectYoutubeSource(parsed), detectInstagramSource(parsed), detectRutubeSource(parsed),
      detectOkSource(parsed), detectVkSource(parsed), detectBlockedPlatformSource(parsed)>>

\* The first adapter result that is not null, NoMatch when there is none.
firstMatch(parsed) ==
    LET matches == SelectSeq(fastMatches(parsed), LAMBDA match : match # NoMatch)
    IN  IF matches = <<>> THEN NoMatch ELSE matches[1]

\* ----------------------------------------------------- the HEAD/GET probe
\* A content-type header as the server sent it: the mime type in lower
\* case, whether the header spells it in upper case, and whether parameters
\* follow it.  RawType("", FALSE, FALSE) is an empty header, NoHeader the
\* null that headers.get returns when the response has none.
RawType(mime, shouted, params) == [mime |-> mime, shouted |-> shouted, params |-> params]
NoHeader == RawType(Null, FALSE, FALSE)
ContentTypes ==
    {NoHeader, RawType("video/mp4", TRUE, TRUE),
     RawType("application/x-mpegurl", TRUE, FALSE),
     RawType("application/vnd.apple.mpegurl", FALSE, TRUE),
     RawType("audio/mpegurl", FALSE, FALSE), RawType("text/html", FALSE, TRUE),
     RawType("", FALSE, TRUE)}
ErrorPageTypes == {NoHeader, RawType("text/html", FALSE, TRUE)}

\* contentType.split(';')[0].trim().toLowerCase(), null for a missing or
\* empty header
normalizeContentType(contentType) ==
    IF contentType = NoHeader \/ contentType = RawType("", FALSE, FALSE) THEN Null
    ELSE contentType.mime

\* The text of a segment from its last dot on, <<>> when it has none.
DotOf(segment) ==
    CASE segment = "clip.mp4" -> <<".mp4">>
      [] segment = "CLIP.MP4" -> <<".MP4">>
      [] segment = "list.m3u8" -> <<".m3u8">>
      [] segment = "page.html" -> <<".html">>
      [] OTHER -> <<>>

\* toLowerCase on the segments of the model
toLowerCase(text) ==
    CASE text = "CLIP.MP4" -> "clip.mp4"
      [] text = ".MP4" -> ".mp4"
      [] OTHER -> text

lowerPath(pathname) == [k \in 1..Len(pathname) |-> toLowerCase(pathname[k])]

\* pathname.slice(pathname.lastIndexOf('.')): the text from the last dot of
\* the whole path on, the segments after that dot included.
NoExtension == <<>>
extensionFromPath(pathname) ==
    LET dotted == {k \in 1..Len(pathname) : DotOf(pathname[k]) # <<>>}
    IN  IF dotted = {} THEN NoExtension
        ELSE LET index == CHOOSE k \in dotted : \A other \in dotted : other <= k
             IN  <<toLowerCase(DotOf(pathname[index])[1])>>
                     \o SubSeq(pathname, index + 1, Len(pathname))

DIRECT_EXTENSIONS == {<<".mp4">>, <<".webm">>, <<".mov">>, <<".m4v">>}

\* lowerPath.endsWith('.m3u8')
endsWithM3u8(pathname) ==
    Len(pathname) >= 1 /\ DotOf(pathname[Len(pathname)]) = <<".m3u8">>

\* contentType.includes(...) for the two HLS mime types
includesHlsMime(contentType) ==
    contentType \in {"application/vnd.apple.mpegurl", "application/x-mpegurl"}

\* contentType.startsWith('video/')
startsWithVideo(contentType) == contentType \in {"video/mp4"}

\* a string that is neither null nor empty
truthy(value) == value # Null /\ value # ""

\* `расширение URL: ${extension}` for the extensions of the model
extensionDetail(extension) ==
    CASE extension = <<".html">> -> "extension .html"
      [] extension = <<".mp4", "abc">> -> "extension .mp4/abc"
      [] extension = <<".m3u8", "">> -> "extension .m3u8/"

\* `Content-Type: ${contentType}` for the content types of the model
contentTypeDetail(contentType) ==
    CASE contentType = "audio/mpegurl" -> "Content-Type audio/mpegurl"
      [] contentType = "text/html" -> "Content-Type text/html"

\* The reason is the fixed sentence with the details that were pushed.
buildUnsupportedReason(extension, contentType) ==
    LET details == (IF extension # NoExtension THEN <<extensionDetail(extension)>> ELSE <<>>)
                      \o (IF truthy(contentType) THEN <<contentTypeDetail(contentType)>> ELSE <<>>)
    IN  CASE details = <<>> -> "source not recognised"
          [] details = <<"extension .html">> -> "source not recognised; extension .html"
          [] details = <<"extension .mp4/abc">> -> "source not recognised; extension .mp4/abc"
          [] details = <<"extension .m3u8/">> -> "source not recognised; extension .m3u8/"
          [] details = <<"Content-Type audio/mpegurl">> ->
                "source not recognised; Content-Type audio/mpegurl"
          [] details = <<"Content-Type text/html">> ->
                "source not recognised; Content-Type text/html"
          [] details = <<"extension .html", "Content-Type audio/mpegurl">> ->
                "source not recognised; extension .html, Content-Type audio/mpegurl"
          [] details = <<"extension .html", "Content-Type text/html">> ->
                "source not recognised; extension .html, Content-Type text/html"
          [] details = <<"extension .mp4/abc", "Content-Type audio/mpegurl">> ->
                "source not recognised; extension .mp4/abc, Content-Type audio/mpegurl"
          [] details = <<"extension .mp4/abc", "Content-Type text/html">> ->
                "source not recognised; extension .mp4/abc, Content-Type text/html"
          [] details = <<"extension .m3u8/", "Content-Type audio/mpegurl">> ->
                "source not recognised; extension .m3u8/, Content-Type audio/mpegurl"
          [] details = <<"extension .m3u8/", "Content-Type text/html">> ->
                "source not recognised; extension .m3u8/, Content-Type text/html"

\* A variant that looks for a video before it looks for a playlist.
decideVideoFirst(finalPath, contentType) ==
    LET lower == lowerPath(finalPath)
        extension == extensionFromPath(lower)
    IN  IF extension \in DIRECT_EXTENSIONS \/ (truthy(contentType) /\ startsWithVideo(contentType))
        THEN Detected("file", Null)
        ELSE IF endsWithM3u8(lower) \/ (truthy(contentType) /\ includesHlsMime(contentType))
        THEN Detected("hls", Null)
        ELSE Detected("unsupported", buildUnsupportedReason(extension, contentType))

\* lines 1943-1980: the decision from the final URL and the content type
decide(finalPath, contentType) ==
    LET lower == lowerPath(finalPath)
        extension == extensionFromPath(lower)
    IN  IF endsWithM3u8(lower) \/ (truthy(contentType) /\ includesHlsMime(contentType))
        THEN Detected("hls", Null)
        ELSE IF extension \in DIRECT_EXTENSIONS \/ (truthy(contentType) /\ startsWithVideo(contentType))
        THEN Detected("file", Null)
        ELSE Detected("unsupported", buildUnsupportedReason(extension, contentType))

\* What fetchWithRedirects settles with: a response with the URL it came
\* from, a rejection of the safety check at some hop, or a failure of the
\* network.
Statuses == {200, 404, 405, 501}
ok(status) == status \in 200..299
ProbeResponse(status, finalPath, contentType) ==
    [kind |-> "response", status |-> status, finalPath |-> finalPath, contentType |-> contentType]
Rejected(err, hop) == [kind |-> "rejected", err |-> err, hop |-> hop]
NetworkFailure(err) == [kind |-> "failed", err |-> err]
RedirectPaths == {<<"list.m3u8">>, <<"abc">>}
Unanswered ==
    {Rejected(BlockedLiteral, 1), Rejected(BlockedRecord, 2)}
    \cup {NetworkFailure(FetchFailed), NetworkFailure(TimeoutError)}
\* The outcomes of the ranged GET: any status with any final URL and type.
ProbeResults(parsedUrl) ==
    {ProbeResponse(status, finalPath, contentType) :
        status \in Statuses, finalPath \in {parsedUrl.path} \cup RedirectPaths,
        contentType \in ContentTypes}
    \cup Unanswered
\* The outcomes of HEAD: those of the GET, where an answer that is not a 2xx
\* one comes from the URL itself and has the type of an error page or none.
HeadResults(parsedUrl) ==
    {res \in ProbeResults(parsedUrl) :
        (res.kind = "response" /\ ~ok(res.status)) =>
            (res.finalPath = parsedUrl.path /\ res.contentType \in ErrorPageTypes)}

\* A variant that takes only a 405 or a 501 for a failure of HEAD.
isHeadFailureByStatus(response) == response.status \in {405, 501}

isHeadFailure(response) ==
    IF ~ok(response.status) THEN TRUE
    ELSE IF response.status = 405 \/ response.status = 501 THEN TRUE
    ELSE FALSE

\* The requests the probe passes to fetchWithRedirects.
HeadRequest == [method |-> "HEAD", range |-> Null]
RangeRequest == [method |-> "GET", range |-> <<0, 1048575>>]

\* pc: idle, head, get, done.  requests: the requests issued so far.
\* head, get: what the two requests settled with.  finalPath, contentType:
\* the locals of detectDirectOrHlsSource.  result: what detectSource
\* settled with.
NoUrl == PageUrl(<<>>, <<>>)
NotSettled == [kind |-> "none"]
NoResult == [type |-> "none", reason |-> Null, err |-> NoErr]
ProbeIdle ==
    [pc |-> "idle", url |-> NoUrl, requests |-> <<>>, head |-> NotSettled, get |-> NotSettled,
     finalPath |-> <<>>, contentType |-> Null, result |-> NoResult]

\* detectSource has settled with det and the handler goes on.
ProbeSettled(next, det) ==
    /\ probe' = [next EXCEPT !.pc = "done", !.result = det]
    /\ IntakeSettled(det)
    /\ UNCHANGED <<dir, files, stored, del, calls, fw, hls, master, ig, vk, transcode>>

\* index.ts lines 13-32: the adapters answer, or the probe sends HEAD
Classify ==
    /\ intake.pc = "detect"
    /\ probe.pc = "idle"
    /\ LET match == firstMatch(probe.url)
       IN  IF match # NoMatch
           THEN ProbeSettled(probe, match)
           ELSE /\ probe' = [probe EXCEPT !.pc = "head", !.requests = <<HeadRequest>>,
                                          !.finalPath = probe.url.path]
                /\ UNCHANGED <<item, dir, files, stored, jobs, jobOptions, runs, intake, del,
                               calls, fw, hls, master, ig, vk, transcode>>

\* The ranged GET is sent.
RangeGet(next) ==
    /\ probe' = [next EXCEPT !.pc = "get", !.requests = Append(next.requests, RangeRequest)]
    /\ UNCHANGED <<item, dir, files, stored, jobs, jobOptions, runs, intake, del,
                   calls, fw, hls, master, ig, vk, transcode>>

\* The decision is made from the locals.
Decide(next) == ProbeSettled(next, decide(next.finalPath, next.contentType))

\* A variant whose catch block falls back whatever was thrown.
ProbeHeadCatchAll(res) ==
    /\ intake.pc = "detect"
    /\ probe.pc = "head"
    /\ res \in HeadResults(probe.url)
    /\ LET seen == [probe EXCEPT !.head = res]
       IN  IF res.kind # "response" THEN RangeGet(seen)
           ELSE LET next == [seen EXCEPT !.finalPath = res.finalPath,
                                         !.contentType = normalizeContentType(res.contentType)]
                IN  IF isHeadFailure(res) THEN RangeGet(next) ELSE Decide(next)

\* lines 1908-1918: the HEAD request settles
ProbeHead(res) ==
    /\ intake.pc = "detect"
    /\ probe.pc = "head"
    /\ res \in HeadResults(probe.url)
    /\ LET seen == [probe EXCEPT !.head = res]
       IN  CASE res.kind = "rejected" -> ProbeSettled(seen, DetectThrew(res.err))
             [] res.kind = "failed" -> RangeGet(seen)
             [] res.kind = "response" ->
                  LET next == [seen EXCEPT !.finalPath = res.finalPath,
                                           !.contentType = normalizeContentType(res.contentType)]
                  IN  IF isHeadFailure(res) THEN RangeGet(next) ELSE Decide(next)

\* lines 1920-1941: the ranged GET settles; its status is not looked at
ProbeGet(res) ==
    /\ intake.pc = "detect"
    /\ probe.pc = "get"
    /\ res \in ProbeResults(probe.url)
    /\ LET seen == [probe EXCEPT !.get = res]
       IN  CASE res.kind = "rejected" -> ProbeSettled(seen, DetectThrew(res.err))
             [] res.kind = "failed" -> ProbeSettled(seen, DetectThrew(ProbeFailed))
             [] res.kind = "response" ->
                  Decide([seen EXCEPT !.finalPath = res.finalPath,
                                      !.contentType = normalizeContentType(res.contentType)])

\* ---------------------------------------------------- Instagram resolver
\* A shortcode is modelled by its length, the only thing the candidates
\* depend on.
SHORTCODE_MIN_LENGTH == 5
SHORTCODE_STANDARD_LENGTH == 11
RawShortcodes == {3, 11, 12}

\* Whether normalizeShortcode returns the text: it returns null for a
\* shortcode that is too short.
normalizeShortcode(raw) == raw >= SHORTCODE_MIN_LENGTH

\* The first eleven characters before the whole text when it is longer
\* than that; a variant that does not normalise is left out.
getShortcodeCandidatesFromUrl(raw) ==
    LET variants == IF raw > SHORTCODE_STANDARD_LENGTH
                    THEN <<SHORTCODE_STANDARD_LENGTH, raw>> ELSE <<raw>>
    IN  SelectSeq(variants, LAMBDA variant : normalizeShortcode(variant))

AuthReason == "Instagram is temporarily unavailable or requires authorization"
NotFoundReason == "Instagram post not found"
RestrictedReason == "Instagram post is unavailable without authorization, removed or private"
GenericReason == "no direct media URL could be extracted from the Instagram link"
NoCandidatesReason == "only /p/<shortcode>/ and /reel/<shortcode>/ links are supported"
InstagramUnsupportedError(message) == Err("InstagramUnsupportedError", message)

\* The page a strategy reads: whether a media URL can be extracted from it
\* and which of the texts detectUnavailableReasonFromHtml looks for it has.
Page(media, notFound, mediaNull) == [media |-> media, notFound |-> notFound, mediaNull |-> mediaNull]
Pages ==
    {Page(TRUE, FALSE, FALSE), Page(FALSE, FALSE, FALSE), Page(FALSE, TRUE, FALSE),
     Page(FALSE, FALSE, TRUE), Page(FALSE, TRUE, TRUE)}

detectUnavailableReasonFromHtml(html) ==
    IF html.notFound THEN NotFoundReason
    ELSE IF html.mediaNull THEN RestrictedReason
    ELSE Null

\* What a request of the resolver settles with: an answer (its status and
\* its body) or a throw of fetchWithRedirects.
Answered(status, body) == [kind |-> "response", status |-> status, body |-> body]
Threw(err) == [kind |-> "threw", err |-> err]
GraphStatuses == {200, 401, 404, 500}
IgResults(aborted) ==
    IF aborted THEN {Threw(AbortError)}
    ELSE {Answered(status, body) : status \in GraphStatuses, body \in Pages}
             \cup {Threw(TimeoutError), Threw(DnsError)}

\* pc: idle, graph, legacy, html, done.  index: the candidate of the loop.
\* requests: the strategy, the candidate and the yield of every request so
\* far.  seen: every reason lastReason was set to.  result: the media
\* found, or the error thrown.
Attempted(strategy, shortcode, yield) ==
    [strategy |-> strategy, candidate |-> shortcode, yield |-> yield]
NoMedia == [kind |-> "none"]
Media(shortcode) == [kind |-> "media", candidate |-> shortcode]
ThrewOut(err) == [kind |-> "threw", err |-> err]
IgIdle ==
    [pc |-> "idle", raw |-> 0, candidates |-> <<>>, index |-> 0, aborted |-> FALSE,
     lastReason |-> Null, requests |-> <<>>, seen |-> {}, result |-> NoMedia]

IgStep(next) ==
    /\ ig' = next
    /\ UNCHANGED <<item, dir, files, stored, jobs, jobOptions, runs, intake, del, calls, fw,
                   hls, master, probe, vk, transcode>>

Noted(state, strategy, yield) ==
    [state EXCEPT !.requests = Append(state.requests,
                                      Attempted(strategy, state.candidates[state.index], yield))]
Reasoned(state, reason) ==
    [state EXCEPT !.lastReason = reason, !.seen = state.seen \cup {reason}]
IgReturn(state) ==
    [state EXCEPT !.pc = "done", !.result = Media(state.candidates[state.index])]
IgThrow(state, err) == [state EXCEPT !.pc = "done", !.result = ThrewOut(err)]

\* lines 400-414: the candidates are computed and the loop is entered
IgBegin ==
    /\ ig.pc = "idle"
    /\ LET candidates == getShortcodeCandidatesFromUrl(ig.raw)
       IN  IF candidates = <<>>
           THEN IgStep(IgThrow(ig, InstagramUnsupportedError(NoCandidatesReason)))
           ELSE IgStep([ig EXCEPT !.pc = "graph", !.candidates = candidates, !.index = 1])

\* The job is cancelled while the resolver runs: the signal fires.
IgAbort ==
    /\ ig.pc \in {"graph", "legacy", "html"}
    /\ ~ig.aborted
    /\ IgStep([ig EXCEPT !.aborted = TRUE])

\* lines 416-442: fetchGraphPayload settles
IgGraph(res) ==
    /\ ig.pc = "graph"
    /\ res \in IgResults(ig.aborted)
    /\ IF res.kind = "threw"
       THEN IF res.err.name \in {"InstagramUnsupportedError", "AbortError"}
            THEN IgStep(IgThrow(Noted(ig, "graph", "threw"), res.err))
            ELSE IgStep([Noted(ig, "graph", "threw") EXCEPT !.pc = "legacy"])
       ELSE IF res.status \in {401, 403, 429}
       THEN IgStep([Reasoned(Noted(ig, "graph", "none"), AuthReason) EXCEPT !.pc = "legacy"])
       ELSE IF res.status = 404
       THEN IgStep([Reasoned(Noted(ig, "graph", "none"), NotFoundReason) EXCEPT !.pc = "legacy"])
       ELSE IF res.body.media
       THEN IgStep(IgReturn(Noted(ig, "graph", "media")))
       ELSE IgStep([Noted(ig, "graph", "none") EXCEPT !.pc = "legacy"])

\* lines 444-455 and 311-332: fetchLegacyJson settles; nothing catches what
\* it throws
IgLegacy(res) ==
    /\ ig.pc = "legacy"
    /\ res \in IgResults(ig.aborted)
    /\ IF res.kind = "threw"
       THEN IgStep(IgThrow(Noted(ig, "legacy", "threw"), res.err))
       ELSE IF res.status \in 200..299 /\ res.body.media
       THEN IgStep(IgReturn(Noted(ig, "legacy", "media")))
       ELSE IgStep([Noted(ig, "legacy", "none") EXCEPT !.pc = "html"])

\* The end of one turn of the loop: the next candidate, or the throw after
\* the loop (line 475).
IgNext(state) ==
    IF state.index < Len(state.candidates)
    THEN [state EXCEPT !.pc = "graph", !.index = state.index + 1]
    ELSE IgThrow(state, InstagramUnsupportedError(Coalesce(state.lastReason, GenericReason)))

\* lines 457-472 and 334-357: fetchPostHtml settles; nothing catches what
\* it throws
IgHtml(res) ==
    /\ ig.pc = "html"
    /\ res \in IgResults(ig.aborted)
    /\ IF res.kind = "threw"
       THEN IgStep(IgThrow(Noted(ig, "html", "threw"), res.err))
       ELSE IF ~(res.status \in 200..299)
       THEN IgStep(IgNext(Noted(ig, "html", "none")))
       ELSE IF res.body.media
       THEN IgStep(IgReturn(Noted(ig, "html", "media")))
       ELSE LET unavailableReason == detectUnavailableReasonFromHtml(res.body)
                noted == Noted(ig, "html", "none")
            IN  IgStep(IgNext(IF unavailableReason # Null
                              THEN Reasoned(noted, unavailableReason) ELSE noted))

\* ------------------------------------------------------------ VK resolver
\* status >= 300 && status < 400
isRedirectStatus(status) == status >= 300 /\ status < 400

\* What a hop of the walk is sent to: the page, the URL a Location header
\* resolves to against the page, or the endpoint of the final POST.
\* NoTarget stands for a response without the header.
VkPage == Url("https:", FALSE, NameHost(<<"vkvideo", "ru">>))
VkEndpoint == Url("https:", FALSE, NameHost(<<"vkvideo", "ru">>))
NoTarget == Url("", FALSE, NoHost)
VkLocations ==
    {NoTarget, Url("https:", FALSE, NameHost(<<"login", "vk", "com">>)),
     Url("http:", FALSE, V4Host(169, 254)), Url("http:", FALSE, NameHost(<<"localhost">>))}

\* What fetchVkManual settles with: a response (its status, its Location
\* and whether its body holds an HLS URL) or what fetch threw.
VkResponse(status, location, hlsUrl) ==
    [kind |-> "response", status |-> status, location |-> location, hlsUrl |-> hlsUrl]
VkResults ==
    {VkResponse(status, location, hlsUrl) :
        status \in {200, 302}, location \in VkLocations, hlsUrl \in BOOLEAN}
    \cup {Threw(TimeoutError)}

\* pc: idle, getUrl, autoLogin, anonymousLogin, getPage, vkVideoInfo, done.
\* requests: the method and the target of every fetch so far; fetchVkManual
\* passes the target to fetch as it is.  responses: what they settled with.
\* result: NoErr when the resolver returned, else what it threw.
VkRequest(method, target) == [method |-> method, target |-> target]
VkIdle == [pc |-> "idle", requests |-> <<>>, responses |-> <<>>, result |-> NoErr]

VkStep(next) ==
    /\ vk' = next
    /\ UNCHANGED <<item, dir, files, stored, jobs, jobOptions, runs, intake, del, calls, fw,
                   hls, master, probe, ig, transcode>>

\* fetchVkManual(url, init): fetch is called at once
VkFetch(state, pc, method, target) ==
    [state EXCEPT !.pc = pc, !.requests = Append(state.requests, VkRequest(method, target))]
VkThrow(state, err) == [state EXCEPT !.pc = "done", !.result = err]
VkUnsupported(state, message) == VkThrow(state, Err("RutubeUnsupportedError", message))

\* lines 331-348: the page is requested
VkBegin ==
    /\ vk.pc = "idle"
    /\ VkStep(VkFetch(vk, "getUrl", "GET", VkPage))

\* A variant that goes on to the POST when the third Location is missing.
VkSettleLenient(res) ==
    /\ vk.pc \notin {"idle", "done"}
    /\ res \in VkResults
    /\ LET seen == [vk EXCEPT !.responses = Append(vk.responses, res)]
       IN  IF res.kind = "threw" THEN VkStep(VkThrow(seen, res.err))
           ELSE CASE vk.pc = "getUrl" ->
                       IF ~isRedirectStatus(res.status)
                       THEN VkStep(VkUnsupported(seen, "no redirect for anonymous access"))
                       ELSE IF res.location = NoTarget
                       THEN VkStep(VkUnsupported(seen, "no Location"))
                       ELSE VkStep(VkFetch(seen, "autoLogin", "GET", res.location))
                  [] vk.pc = "autoLogin" ->
                       IF res.location = NoTarget
                       THEN VkStep(VkUnsupported(seen, "no second Location"))
                       ELSE VkStep(VkFetch(seen, "anonymousLogin", "GET", res.location))
                  [] vk.pc = "anonymousLogin" ->
                       IF res.location = NoTarget
                       THEN VkStep(VkFetch(seen, "vkVideoInfo", "POST", VkEndpoint))
                       ELSE VkStep(VkFetch(seen, "getPage", "GET", res.location))
                  [] vk.pc = "getPage" ->
                       VkStep(VkFetch(seen, "vkVideoInfo", "POST", VkEndpoint))
                  [] vk.pc = "vkVideoInfo" ->
                       IF ~res.hlsUrl
                       THEN VkStep(VkUnsupported(seen, "no HLS URL in the response"))
                       ELSE VkStep([seen EXCEPT !.pc = "done"])

\* lines 340-463: a request of the walk settles and the resolver goes on to
\* the next one, returns or throws
VkSettle(res) ==
    /\ vk.pc \notin {"idle", "done"}
    /\ res \in VkResults
    /\ LET seen == [vk EXCEPT !.responses = Append(vk.responses, res)]
       IN  IF res.kind = "threw" THEN VkStep(VkThrow(seen, res.err))
           ELSE CASE vk.pc = "getUrl" ->
                       IF ~isRedirectStatus(res.status)
                       THEN VkStep(VkUnsupported(seen, "no redirect for anonymous access"))
                       ELSE IF res.location = NoTarget
                       THEN VkStep(VkUnsupported(seen, "no Location"))
                       ELSE VkStep(VkFetch(seen, "autoLogin", "GET", res.location))
                  [] vk.pc = "autoLogin" ->
                       IF res.location = NoTarget
                       THEN VkStep(VkUnsupported(seen, "no second Location"))
                       ELSE VkStep(VkFetch(seen, "anonymousLogin", "GET", res.location))
                  [] vk.pc = "anonymousLogin" ->
                       IF res.location = NoTarget
                       THEN VkStep(VkUnsupported(seen, "no third Location"))
                       ELSE VkStep(VkFetch(seen, "getPage", "GET", res.location))
                  [] vk.pc = "getPage" ->
                       VkStep(VkFetch(seen, "vkVideoInfo", "POST", VkEndpoint))
                  [] vk.pc = "vkVideoInfo" ->
                       IF ~res.hlsUrl
                       THEN VkStep(VkUnsupported(seen, "no HLS URL in the response"))
                       ELSE VkStep([seen EXCEPT !.pc = "done"])

\* ----------------------------------------------------------- specifications

InitJob ==
    /\ dir = FALSE
    /\ files = {}
    /\ stored = Empty
    /\ jobs = NoRun
    /\ jobOptions = NoOptions
    /\ runs = [r \in 1..MaxRuns |-> IdleRun]
    /\ del = "none"
    /\ calls = NoCalls
    /\ fw = FwIdle

Init ==
    /\ InitJob
    /\ hls = HlsIdle
    /\ master = MasterIdle
    /\ probe = ProbeIdle
    /\ ig = IgIdle
    /\ vk = VkIdle
    /\ transcode = TranscodeIdle
    /\ item = NoItem
    /\ intake = NoIntake

Next ==
    \/ \E format \in FormatIds : PostInbox(format)
    \/ \E det \in DetectResults : IntakeDetect(det)
    \/ IntakeYtMeta
    \/ DeleteBegin
    \/ DeleteRm
    \/ DeleteItem
    \/ \E r \in 1..MaxRuns : RunNext(r)

Spec == Init /\ [][Next]_vars

\* The event loop runs every continuation that is ready, and every request,
\* stream, file operation and subprocess a run awaits settles: a run that
\* can take a step eventually takes one.
SpecLive == Spec /\ \A r \in 1..MaxRuns : WF_vars(RunNext(r))

\* The caller holds a queued row of a detected type, as the intake leaves it
\* (server.ts lines 886-899).
InitCtl ==
    /\ InitJob
    /\ \E t \in DownloadTypes : item = createItem("detected", t, "queued")
    /\ intake = [pc |-> "done", format |-> NoFormat]
    /\ hls = HlsIdle
    /\ master = MasterIdle
    /\ probe = ProbeIdle
    /\ ig = IgIdle
    /\ vk = VkIdle
    /\ transcode = TranscodeIdle

NextCtl ==
    \/ \E format \in FormatIds : ApiStart(format)
    \/ ApiCancel
    \/ \E r \in 1..MaxRuns : RunNext(r)

SpecCtl == InitCtl /\ [][NextCtl]_vars

\* One call of fetchWithRedirects, for any URL and any network.
InitFetch ==
    /\ InitJob
    /\ item = NoItem
    /\ intake = NoIntake
    /\ hls = HlsIdle
    /\ master = MasterIdle
    /\ probe = ProbeIdle
    /\ ig = IgIdle
    /\ vk = VkIdle
    /\ transcode = TranscodeIdle

NextFetch ==
    \/ \E url \in Urls : FwCall(url)
    \/ \E answer \in AllAnswers : FwLookup(answer)
    \/ \E outcome \in Outcomes, target \in Urls :
          /\ outcome # "redirect" => target = fw.current
          /\ FwResponse(outcome, target)

SpecFetch == InitFetch /\ [][NextFetch]_vars

\* One ingestion of any media playlist: the text has been fetched.
InitHls ==
    /\ InitJob
    /\ item = NoItem
    /\ intake = NoIntake
    /\ \E lines \in Playlists : hls = [HlsIdle EXCEPT !.pc = "parse", !.lines = lines]
    /\ master = MasterIdle
    /\ probe = ProbeIdle
    /\ ig = IgIdle
    /\ vk = VkIdle
    /\ transcode = TranscodeIdle

NextHls ==
    \/ HlsParse
    \/ \E res \in ResourceResults : HlsResource(res)
    \/ HlsRewrite
    \/ HlsCleanup

SpecHls == InitHls /\ [][NextHls]_vars

\* The root playlist of one ingestion, for any text of up to MaxMasterLines
\* lines: the request for it is in flight.
InitMaster ==
    /\ InitJob
    /\ item = NoItem
    /\ intake = NoIntake
    /\ hls = HlsIdle
    /\ \E lines \in Masters : master = [MasterIdle EXCEPT !.pc = "root", !.lines = lines]
    /\ probe = ProbeIdle
    /\ ig = IgIdle
    /\ vk = VkIdle
    /\ transcode = TranscodeIdle

NextMaster ==
    \/ \E res \in ResourceResults : MasterRoot(res)
    \/ \E res \in ResourceResults : MasterVariant(res)

SpecMaster == InitMaster /\ [][NextMaster]_vars

\* The intake of one URL: the host is a platform's, a blocked platform's, a
\* look-alike of one or any other host, the path any of ProbePaths.
ProbeHosts ==
    {<<"youtube", "com">>, <<"m", "youtube", "com">>, <<"youtu", "be">>,
     <<"instagram", "com">>, <<"instagr", "am">>, <<"rutube", "ru">>, <<"ok", "ru">>,
     <<"vk", "com">>, <<"vkvideo", "ru">>, <<"tiktok", "com">>, <<"www", "x", "com">>,
     <<"vimeo", "com">>, <<"notyoutube", "com">>, <<"cdn", "example">>}
ProbePaths ==
    {<<>>, <<"abc">>, <<"p", "abc">>, <<"reel", "abc">>, <<"p">>, <<"abc", "p", "abc">>,
     <<"video", "abc">>, <<"video", "123">>, <<"videoembed", "123">>,
     <<"video", "private", "abc">>, <<"video", "">>, <<"video-1_2">>,
     <<"playlist", "abc", "video-1_2">>, <<"playlist", "", "video-1_2">>,
     <<"clip.mp4">>, <<"CLIP.MP4">>, <<"list.m3u8">>, <<"list.m3u8", "">>,
     <<"page.html">>, <<"clip.mp4", "abc">>}

InitDetect ==
    /\ InitJob
    /\ item = NoItem
    /\ intake = NoIntake
    /\ hls = HlsIdle
    /\ master = MasterIdle
    /\ \E host \in ProbeHosts, path \in ProbePaths :
          probe = [ProbeIdle EXCEPT !.url = PageUrl(host, path)]
    /\ ig = IgIdle
    /\ vk = VkIdle
    /\ transcode = TranscodeIdle

NextDetect ==
    \/ \E format \in FormatIds : PostInbox(format)
    \/ Classify
    \/ \E res \in HeadResults(probe.url) : ProbeHead(res)
    \/ \E res \in ProbeResults(probe.url) : ProbeGet(res)
    \/ IntakeYtMeta

SpecDetect == InitDetect /\ [][NextDetect]_vars

\* One call of resolveInstagramMedia for a post URL of Instagram, for any
\* length of the shortcode in RawShortcodes.
InitIg ==
    /\ InitJob
    /\ item = NoItem
    /\ intake = NoIntake
    /\ hls = HlsIdle
    /\ master = MasterIdle
    /\ probe = ProbeIdle
    /\ \E raw \in RawShortcodes : ig = [IgIdle EXCEPT !.raw = raw]
    /\ vk = VkIdle
    /\ transcode = TranscodeIdle

NextIg ==
    \/ IgBegin
    \/ IgAbort
    \/ \E res \in IgResults(ig.aborted) : IgGraph(res)
    \/ \E res \in IgResults(ig.aborted) : IgLegacy(res)
    \/ \E res \in IgResults(ig.aborted) : IgHtml(res)

SpecIg == InitIg /\ [][NextIg]_vars

\* One call of resolveVkMedia for a video URL of VK.
InitVk ==
    /\ InitJob
    /\ item = NoItem
    /\ intake = NoIntake
    /\ hls = HlsIdle
    /\ master = MasterIdle
    /\ probe = ProbeIdle
    /\ ig = IgIdle
    /\ vk = VkIdle
    /\ transcode = TranscodeIdle

NextVk ==
    \/ VkBegin
    \/ \E res \in VkResults : VkSettle(res)

SpecVk == InitVk /\ [][NextVk]_vars

\* Requests for the download of one ready HLS item.
InitDownload ==
    /\ InitJob
    /\ \E t \in {"hls"} \cup HlsResolved : item = [createItem("detected", t, "ready") EXCEPT !.sizeBytes = 1]
    /\ intake = [pc |-> "done", format |-> NoFormat]
    /\ hls = HlsIdle
    /\ master = MasterIdle
    /\ probe = ProbeIdle
    /\ ig = IgIdle
    /\ vk = VkIdle
    /\ \E playlist \in BOOLEAN : transcode = [TranscodeIdle EXCEPT !.playlist = playlist]

NextDownload ==
    \/ \E q \in Requests : DownloadBegin(q)
    \/ \E q \in Requests : OutputExists(q)
    \/ \E q \in Requests : PlaylistExists(q)
    \/ FfmpegOpen
    \/ \E code \in ExitCodes : FfmpegClose(code)
    \/ \E q \in Requests : OutputWritten(q)
    \/ \E q \in Requests : Stat(q)
    \/ \E q \in Requests : StreamDone(q)

SpecDownload == InitDownload /\ [][NextDownload]_vars

\* --------------------------------------------------------------- properties
StatusOf(row) == IF row = NoItem THEN "absent" ELSE row.status

AllRuns == 1..MaxRuns

C2_CancelledRunIsInert ==
    [][\A r \in AllRuns :
          (runs[r].aborted /\ runs'[r] # runs[r]) =>
              (item' = item /\ runs'[r].pc # "cleanup")]_vars

\* C3: once the delete handler has completed and no run is in flight, the
\* storage directory does not exist and the row is gone.
C3_DeleteLeavesNothing ==
    (del = "done" /\ \A r \in AllRuns : ~Running(r)) => (~dir /\ item = NoItem)

\* C4: a start() call that finds an entry for the id in the jobs map begins
\* no run, leaves the stored controller and options as they are, and writes
\* nothing to the row or the storage.
C4_StartIdempotent ==
    [][(calls'.start # calls.start /\ jobs # NoRun) =>
          UNCHANGED <<item, dir, files, stored, jobs, jobOptions, runs>>]_vars

C4_Witness ==
    /\ calls.start = 2 /\ calls.cancel = 0
    /\ Cardinality(Started) = 1
    /\ jobs = 1 /\ Running(1)

\* The address ranges by their prefixes: 10/8, 172.16/12, 192.168/16 (private),
\* 127/8 (loopback), 169.254/16 (link-local), 100.64/10 (carrier NAT), 224/4
\* (multicast); for IPv6 ::1, fc00::/7, fe80::/10 and the mapped IPv4 ranges.
InPrefix4(a, b) ==
    LET p == a * 256 + b IN
    \/ a = 10 \/ a = 127
    \/ p \div 16 = (172 * 256 + 16) \div 16
    \/ p = 192 * 256 + 168
    \/ p = 169 * 256 + 254
    \/ p \div 64 = (100 * 256 + 64) \div 64
    \/ a \div 16 = 14

InPrefix(ip) ==
    IF ip.family = 4 THEN InPrefix4(ip.a, ip.b)
    ELSE \/ ip = Loopback6
         \/ ip.first \div 512 = 64512 \div 512
         \/ ip.first \div 64 = 65152 \div 64
         \/ (ip.dotted /\ InPrefix4(ip.a, ip.b))

\* C5: while a request of fetchWithRedirects is in flight, its URL is not a
\* literal address in a blocked range, not a bracketed literal, not
\* localhost or a name under .localhost or .local, and, for a host name, the
\* lookup made for it succeeded with at least one address and none in a
\* blocked range.
C5_NoRequestToPrivateTarget ==
    fw.pc = "fetch" =>
        LET host == fw.current.host IN
        /\ host.kind # "v6"
        /\ host.kind = "v4" => ~InPrefix4(host.a, host.b)
        /\ host.kind = "name" =>
              /\ host.labels # <<>>
              /\ host.labels[Len(host.labels)] \notin {"localhost", "local"} \/ host = NameHost(<<"local">>)
              /\ fw.dns.kind = "answered"
              /\ fw.dns.records # <<>>
              /\ \A i \in 1..Len(fw.dns.records) : ~InPrefix(fw.dns.records[i])

C5_Witness ==
    /\ fw.pc = "done"
    /\ fw.redirects = 1
    /\ fw.requests = 1
    /\ fw.current.host = V4Host(100, 127)
    /\ fw.result = BlockedLiteral

\* C6: a call issues at most MAX_REDIRECTS + 1 requests, one per hop and each
\* after assertSafeUrl has returned for the URL of that hop; once more than
\* MAX_REDIRECTS redirects have been followed the call has failed with the
\* redirect-limit error; a call that ends with a rejection of the safety
\* check has issued no request for the URL it rejected.
C6_BoundedCheckedRedirects ==
    /\ fw.requests <= MAX_REDIRECTS + 1
    /\ fw.pc = "fetch" => (fw.checked /\ fw.requests = fw.hop + 1)
    /\ fw.redirects > MAX_REDIRECTS => (fw.pc = "done" /\ fw.result = RedirectLimit)
    /\ (fw.pc = "done" /\ fw.result.name = "UserInputError") =>
           (~fw.checked /\ fw.requests = fw.hop)

C6_Witness ==
    /\ fw.pc = "done"
    /\ fw.result = RedirectLimit
    /\ fw.requests = MAX_REDIRECTS + 1
    /\ fw.redirects = MAX_REDIRECTS + 1

C8_FailureMapping ==
    [][\A r \in AllRuns :
          (runs[r].pc = "cleanup" /\ runs'[r].pc = "done" /\ item # NoItem) =>
              LET err == runs[r].err IN
              /\ err.name # "AbortError"
              /\ err.message # ""
              /\ item'.reason = err.message
              /\ IF err.name \in {"UnsupportedSourceError", "InstagramUnsupportedError",
                                  "RutubeUnsupportedError"}
                 THEN item'.status = "unsupported" /\ item'.type = "unsupported"
                 ELSE item'.status = "error" /\ item'.type = item.type]_vars

C8_Witness ==
    /\ item # NoItem
    /\ item.status = "error"
    /\ item.type = "youtube"
    /\ item.reason = "youtube-dl finished but no file found"

\* C9: whenever the row carries status unsupported or error, the storage
\* directory of the item does not exist.
C9_FailureAfterWipe ==
    (item # NoItem /\ item.status \in {"unsupported", "error"}) => (~dir /\ files = {})

C9_Witness ==
    /\ item # NoItem
    /\ item.status = "unsupported"
    /\ item.reason = "size limit exceeded"
    /\ \E r \in AllRuns : runs[r].term = 1
    /\ ~dir

\* C10: a row with status unsupported has type unsupported and a reason.
C10_UnsupportedHasTypeAndReason ==
    (item # NoItem /\ item.status = "unsupported") =>
        (item.type = "unsupported" /\ item.reason # Null)

C10_Witness ==
    /\ item # NoItem
    /\ item.status = "unsupported"
    /\ item.reason = "EXT-X-KEY not supported"
    /\ item.type = "unsupported"

\* The media artifact of an item of this type is in the storage: the
\* rewritten playlist with every file it references, or the media file.
HasArtifact(type) ==
    IF IsHls(type)
    THEN "index.m3u8" \in files /\ stored.index # {} /\ stored.index \subseteq files
    ELSE IF type = "instagram" THEN "image" \in files
    ELSE "video" \in files

\* C11 as stated: whenever the row carries status ready, the storage holds
\* the media artifact of the item's type.
C11_ReadyHasArtifact ==
    (item # NoItem /\ item.status = "ready") => HasArtifact(item.type)

\* C11, amended: whenever the row carries status ready, the storage holds the
\* media artifact of the item's type, except between the moment a delete of
\* the item has removed the storage and the moment it deletes the row.
C11_ReadyHasArtifactUnlessDeleting ==
    (item # NoItem /\ item.status = "ready" /\ del # "removed") => HasArtifact(item.type)

C11_Witness ==
    /\ item # NoItem
    /\ item.status = "ready"
    /\ item.type = "rutube"
    /\ Cardinality(stored.index) = MaxSegs
    /\ del = "rm"


HasKeyLine == \E i \in 1..Len(hls.lines) : hls.lines[i].kind = "key"
SegmentLines == {i \in 1..Len(hls.lines) : hls.lines[i].kind = "segment"}
Occurrences(seq, x) == Cardinality({k \in 1..Len(seq) : seq[k] = x})
SegmentFiles == hls.disk \ {"index.m3u8"}

C15_DedupByAbsoluteUrl ==
    /\ \A k \in 1..Len(hls.requested) : Occurrences(hls.requested, hls.requested[k]) = 1
    /\ \A k \in 1..Len(hls.written) : Occurrences(hls.written, hls.written[k]) = 1
    /\ (hls.pc = "done" /\ hls.status = "ready") =>
          /\ Len(hls.requested) = Len(hls.written)
          /\ \A k \in 1..Len(hls.references) :
                LET ref == hls.references[k] IN
                /\ Occurrences(hls.requested, ref.absoluteUrl) = 1
                /\ \E n \in 1..Len(hls.requested) :
                      /\ hls.requested[n] = ref.absoluteUrl
                      /\ hls.index[ref.lineIndex].uri = <<hls.written[n]>>
                      /\ hls.written[n] \in hls.disk
          /\ \A k, m \in 1..Len(hls.references) :
                hls.references[k].absoluteUrl = hls.references[m].absoluteUrl
                    => hls.index[hls.references[k].lineIndex].uri
                           = hls.index[hls.references[m].lineIndex].uri

\* Two segment lines of different text and an init segment, one URL.
C15_Witness ==
    /\ hls.pc = "done" /\ hls.status = "ready"
    /\ \E i, j, m \in 1..Len(hls.lines) :
          /\ hls.lines[i] = Line("segment", <<"a">>)
          /\ hls.lines[j] = Line("segment", <<".", "a">>)
          /\ hls.lines[m] = Line("map", <<"a">>)
    /\ Len(hls.requested) = 1

\* Helpers for the claims about the byte cap.
Direct == {"file", "instagram"}
SizeLimit(err) == isTypedUnsupported(err) /\ err.message = "size limit exceeded"

\* C16: a run of a direct download leaves no more than MAX_DOWNLOAD_BYTES
\* in the storage; a response whose Content-Length is over the cap makes the
\* run fail with the typed size error while its file does not exist and
\* nothing was written; the chunk that takes the running total over the cap
\* makes the run fail with that error and changes nothing in the storage.
C16_DirectNeverOverCap ==
    [][\A r \in AllRuns :
          (runs[r].type \in Direct /\ runs'[r] # runs[r]) =>
              /\ stored'.bytes <= MAX_DOWNLOAD_BYTES
              /\ (runs[r].pc = "fetch" /\ runs'[r].over) =>
                    /\ runs'[r].pc = "cleanup" /\ SizeLimit(runs'[r].err)
                    /\ FileName(runs[r]) \notin files' /\ stored'.bytes = 0
              /\ (runs[r].pc = "stream" /\ runs'[r].n > MAX_DOWNLOAD_BYTES) =>
                    /\ runs'[r].pc = "cleanup" /\ SizeLimit(runs'[r].err)
                    /\ stored' = stored /\ files' = files]_vars

C16_Witness ==
    \E r \in AllRuns :
        /\ runs[r].type = "file" /\ runs[r].pc = "cleanup" /\ SizeLimit(runs[r].err)
        /\ runs[r].n = MAX_DOWNLOAD_BYTES + 1
        /\ stored.bytes = MAX_DOWNLOAD_BYTES /\ "video" \in files

\* C17: during an HLS ingestion neither the bytes in the storage nor the
\* running total a resource is begun with exceed MAX_DOWNLOAD_BYTES; a
\* resource whose
\* Content-Length would take the total over the cap makes the run fail with
\* the typed size error before the resource's file is opened, and so does the
\* chunk that takes the total over the cap, which is not written.
C17_HlsNeverOverCap ==
    [][\A r \in AllRuns :
          (IsHls(runs[r].type) /\ runs'[r] # runs[r]) =>
              /\ stored'.bytes <= MAX_DOWNLOAD_BYTES
              /\ runs'[r].pc \in {"segMkdir", "segFetch", "open", "stream", "writeIndex"}
                    => runs'[r].n <= MAX_DOWNLOAD_BYTES
              /\ (runs[r].pc = "segFetch" /\ runs'[r].over) =>
                    /\ runs'[r].pc = "cleanup" /\ SizeLimit(runs'[r].err)
                    /\ stored' = stored /\ files' = files
              /\ (runs[r].pc = "stream" /\ runs'[r].n > MAX_DOWNLOAD_BYTES) =>
                    /\ runs'[r].pc = "cleanup" /\ SizeLimit(runs'[r].err)
                    /\ stored' = stored /\ files' = files]_vars

\* The cap is reached in the first resource, the second one declares more.
C17_Witness ==
    \E r \in AllRuns :
        /\ runs[r].type = "hls" /\ runs[r].pc = "cleanup" /\ SizeLimit(runs[r].err)
        /\ runs[r].n = MAX_DOWNLOAD_BYTES /\ runs[r].over
        /\ runs[r].seg = 2
        /\ stored.bytes = MAX_DOWNLOAD_BYTES

Writes(r) ==
    /\ runs'[r] # runs[r]
    /\ calls' = calls
    /\ runs[r].pc \notin {"idle", "resetRm", "resetMkdir"}
    /\ \/ files' \ files # {}
       \/ stored'.by # stored.by /\ stored'.by # {}
       \/ stored'.bytes > stored.bytes
       \/ dir' /\ ~dir

\* C19: the step that begins a run sets status downloading and reason null;
\* a run adds nothing to the storage before its resetItemStorage has removed
\* and recreated the directory; and when a run sets the item ready, no file
\* of the storage was created by a run begun before it.
C19_ResetBeforeWrite ==
    [][\A r \in AllRuns :
          /\ (runs[r].pc = "idle" /\ runs'[r].pc # "idle") =>
                (item'.status = "downloading" /\ item'.reason = Null)
          /\ Writes(r) => runs[r].reset
          /\ (runs'[r] # runs[r] /\ calls' = calls
                /\ StatusOf(item') = "ready" /\ StatusOf(item) # "ready") =>
                \A p \in stored'.by : p[2] >= r]_vars

\* C20: the delete handler fires the signal of the item's job in its first
\* step, removes the storage in its second and deletes the row in its third;
\* when the row is deleted, no run of the item is in flight with a signal
\* that has not been fired.
C20_DeleteCancelsFirst ==
    [][/\ (del = "none" /\ del' = "rm") =>
             (jobs' = NoRun /\ \A r \in AllRuns : Running(r) => runs'[r].aborted)
       /\ (del = "rm" /\ del' = "removed") => (~dir' /\ item' = item /\ item # NoItem)
       /\ (item # NoItem /\ item' = NoItem) =>
             /\ del = "removed"
             /\ \A r \in AllRuns : Running(r) => runs[r].aborted]_vars

\* C21: a run whose signal has been fired calls fetch for no further request,
\* starts no subprocess and begins no write of a file (the open of a media
\* file, the write of index.m3u8); what it had dispatched before may complete.
C21_NothingNewAfterCancel ==
    [][\A r \in AllRuns :
          (runs[r].aborted /\ runs'[r] # runs[r]) =>
              /\ runs'[r].sent => runs[r].sent
              /\ runs'[r].pc \in {"attempt1", "attempt2"} => runs[r].pc = runs'[r].pc
              /\ runs'[r].pc \in {"open", "writeIndex"} => runs[r].pc = runs'[r].pc]_vars

\* The bandwidth a variant declares: the BANDWIDTH attribute of its tag.
Declared(variant) ==
    LET found == SelectSeq(master.lines[variant.inf].attrs, LAMBDA attr : attr.name = "BANDWIDTH")
    IN  IF found = <<>> THEN 0 ELSE found[1].value
DeclaresBandwidth(line) ==
    line.kind = "inf" => \E k \in 1..Len(line.attrs) : line.attrs[k].name = "BANDWIDTH"

\* Every tag declares its BANDWIDTH and has a URI line of its own.
WellFormedMaster ==
    /\ \A i \in 1..Len(master.lines) : DeclaresBandwidth(master.lines[i])
    /\ \A i \in 1..Len(master.lines) :
           master.lines[i].kind = "inf" =>
               (i < Len(master.lines) /\ master.lines[i + 1].kind = "uri")

\* C22: for a root playlist with variants, every one of which declares its
\* BANDWIDTH and is followed by its URI line, the one request made after
\* that for the root playlist is for the URI of a variant whose declared
\* BANDWIDTH is not below that of any other variant, and that playlist is
\* the media playlist.
C22_HighestBandwidthVariant ==
    (/\ master.pc \in {"variant", "media"}
     /\ Len(master.variants) > 0
     /\ WellFormedMaster) =>
        /\ \E i \in 1..Len(master.variants) : master.selected = master.variants[i]
        /\ \A i \in 1..Len(master.variants) :
               Declared(master.selected) >= Declared(master.variants[i])
        /\ Len(master.requested) <= 2
        /\ master.pc = "media" =>
               /\ master.requested = <<RootUrl, master.selected.absoluteUrl>>
               /\ master.mediaPlaylistUrl = master.selected.absoluteUrl

\* C23: index.m3u8 has as many lines as the media playlist; the line of a
\* segment is the local path of its resource and nothing else, the line of
\* an #EXT-X-MAP tag with a URI differs from the original in the URI only,
\* which is the local path of its resource, and every other line is the
\* original line.
C23_RewriteKeepsOtherLines ==
    (hls.pc = "done" /\ hls.status = "ready") =>
        /\ Len(hls.index) = Len(hls.lines)
        /\ \A i \in 1..Len(hls.lines) :
               LET line == hls.lines[i]
                   local == hls.index[i]
               IN  IF line.kind = "segment"
                   THEN /\ local.kind = "segment" /\ local.rest = NoRest
                        /\ Len(local.uri) = 1 /\ local.uri[1] \in SegmentFiles
                   ELSE IF line.kind = "map" /\ line.uri # NoUri
                   THEN /\ local.kind = "map" /\ local.rest = line.rest
                        /\ Len(local.uri) = 1 /\ local.uri[1] \in SegmentFiles
                   ELSE local = line

\* A padded segment line, a tag with a second attribute, a comment.
C23_Witness ==
    /\ hls.pc = "done" /\ hls.status = "ready"
    /\ Len(hls.lines) = MaxLines
    /\ \E i, j, k \in 1..Len(hls.lines) :
          /\ hls.lines[i] = LineWith("map", <<"i">>, "BYTERANGE")
          /\ hls.lines[j] = LineWith("segment", <<"b">>, "padded")
          /\ hls.lines[k].kind = "comment"
          /\ hls.index[i] = LineWith("map", <<MapPaths[1]>>, "BYTERANGE")
          /\ hls.index[j] = Line("segment", <<SegPaths[1]>>)

\* C24: a run that received 401 or 403 for a playlist, a segment, an init
\* segment or a direct file has nothing left to do but the wipe of the catch
\* block, calls fetch for nothing more, and the update that ends it sets the
\* status unsupported; with any other status that is not 2xx the same, and
\* the status is error.
C24_RefusedResponseFailsJob ==
    [][\A r \in AllRuns :
          /\ runs'[r].got # "none" => (runs'[r].pc = "cleanup" /\ ~runs'[r].sent)
          /\ (runs[r].got # "none" /\ runs'[r] # runs[r] /\ runs'[r].aborted = runs[r].aborted) =>
                /\ runs'[r].pc = "done" /\ runs'[r].term = runs[r].term + 1
                /\ item # NoItem =>
                      item'.status = (IF runs[r].got = "auth" THEN "unsupported" ELSE "error")]_vars

\* The second segment of a playlist is refused, the first one is stored.
C24_Witness ==
    \E r \in AllRuns :
        /\ runs[r].type = "hls" /\ runs[r].got = "auth" /\ runs[r].seg = 2
        /\ "seg-1" \in files

\* C25: a URL whose host is that of a recognized platform (YouTube,
\* Instagram, RuTube, OK, VK) or of a blocked platform is classified without
\* any network request, and classification returns a result; when the
\* platform has a rule for the path and the path does not fit it, the result
\* and the item are unsupported with that platform's reason.
PlatformSuffixes ==
    YOUTUBE_SUFFIXES \cup INSTAGRAM_SUFFIXES \cup RUTUBE_SUFFIXES \cup OK_SUFFIXES \cup VK_SUFFIXES
        \cup {BLOCKED_PLATFORMS[k].suffix : k \in DOMAIN BLOCKED_PLATFORMS}
MisfitReason(url) ==
    CASE isInstagramHost(url.host) /\ ~INSTAGRAM_MEDIA_PATH(url.path) -> InstagramPathReason
      [] isRutubeHost(url.host) /\ ~isRutubeVideoPath(url.path) -> RutubePathReason
      [] isOkHost(url.host) /\ ~isOkVideoPath(url.path) -> OkPathReason
      [] isVkHost(url.host) /\ ~isVkVideoPath(url.path) -> VkPathReason
      [] OTHER -> Null
C25_PlatformHostsAreNotProbed ==
    hasHostSuffix(probe.url.host, PlatformSuffixes) =>
        /\ probe.requests = <<>>
        /\ probe.pc \in {"idle", "done"}
        /\ probe.pc = "done" =>
              /\ probe.result.err = NoErr
              /\ MisfitReason(probe.url) # Null =>
                    /\ probe.result = Detected("unsupported", MisfitReason(probe.url))
                    /\ item.status = "unsupported"
                    /\ item.reason = MisfitReason(probe.url)
                    /\ jobs = NoRun

C25_Witness ==
    /\ probe.pc = "done"
    /\ isRutubeHost(probe.url.host)
    /\ probe.url.path = <<"video", "">>
    /\ probe.requests = <<>>
    /\ item.reason = RutubePathReason

\* C26: the probe sends HEAD first and sends the ranged GET (Range:
\* bytes=0-1048575) second only when HEAD failed: the request threw for the
\* network or a timeout, or the answer is not a 2xx one (405 and 501 among
\* them); a HEAD that failed is always followed by the GET, and after a 2xx
\* HEAD the probe decides from the HEAD response alone without a GET.
HeadFailed(head) ==
    \/ head.kind = "failed"
    \/ head.kind = "response" /\ head.status \notin 200..299
C26_GetOnlyAfterHeadFails ==
    /\ probe.requests # <<>> => probe.requests[1] = HeadRequest
    /\ Len(probe.requests) <= 2
    /\ Len(probe.requests) = 2 => (probe.requests[2] = RangeRequest /\ HeadFailed(probe.head))
    /\ HeadFailed(probe.head) => Len(probe.requests) = 2
    /\ (probe.head.kind = "response" /\ ~HeadFailed(probe.head)) =>
          /\ probe.pc = "done"
          /\ probe.requests = <<HeadRequest>>
          /\ probe.finalPath = probe.head.finalPath
          /\ probe.contentType = normalizeContentType(probe.head.contentType)

C26_Witness ==
    /\ probe.pc = "done"
    /\ probe.head.kind = "response"
    /\ probe.head.status = 405
    /\ probe.requests = <<HeadRequest, RangeRequest>>
    /\ probe.get.kind = "response"

\* C27: the decision of the probe is a function of the extension of the
\* final URL's path and of the normalized content type of the last response,
\* whatever the statuses and the submitted URL were: hls when the extension
\* is .m3u8 or the type is an HLS mime type, else file when the extension is
\* one of .mp4, .webm, .mov, .m4v or the type starts with video/, else
\* unsupported with a reason that names the extension and the content type
\* seen: no other extension or content type has the same reason.
LastResponse == IF Len(probe.requests) = 2 THEN probe.get ELSE probe.head
Lowered(contentType) == IF contentType \in {NoHeader, RawType("", FALSE, FALSE)} THEN Null ELSE contentType.mime
Named(contentType) == IF contentType = "" THEN Null ELSE contentType
UnsupportedSeen ==
    {NoExtension, <<".html">>, <<".mp4", "abc">>, <<".m3u8", "">>}
        \X {Null, "", "audio/mpegurl", "text/html"}
C27_DecisionFromExtensionAndType ==
    (probe.pc = "done" /\ LastResponse.kind = "response") =>
        LET extension == extensionFromPath(lowerPath(LastResponse.finalPath))
            contentType == Lowered(LastResponse.contentType)
            playlist == extension = <<".m3u8">>
                            \/ contentType \in {"application/vnd.apple.mpegurl", "application/x-mpegurl"}
            video == extension \in {<<".mp4">>, <<".webm">>, <<".mov">>, <<".m4v">>}
                            \/ contentType \in {"video/mp4"}
        IN  /\ probe.result.err = NoErr
            /\ probe.result.type = (IF playlist THEN "hls" ELSE IF video THEN "file" ELSE "unsupported")
            /\ probe.result.type = "unsupported" =>
                  /\ item.reason = probe.result.reason
                  /\ \A other \in UnsupportedSeen :
                        probe.result.reason = buildUnsupportedReason(other[1], other[2]) =>
                            (other[1] = extension /\ Named(other[2]) = Named(contentType))

C27_Witness ==
    /\ probe.pc = "done"
    /\ Len(probe.requests) = 2
    /\ probe.get.kind = "response"
    /\ probe.get.status = 404
    /\ probe.get.finalPath = <<"clip.mp4">>
    /\ probe.get.contentType = RawType("application/x-mpegurl", TRUE, FALSE)
    /\ probe.result.type = "hls"

\* C28: a URL the safety check rejects during the probe, at the first hop or
\* at a redirect hop, is an input error: a rejected HEAD is not followed by
\* the ranged GET, no job is started, and the item ends unsupported with the
\* message of the rejection as its reason.
C28_UnsafeUrlIsInputError ==
    \A seen \in {probe.head, probe.get} :
        seen.kind = "rejected" =>
            /\ probe.pc = "done"
            /\ probe.head.kind = "rejected" => probe.requests = <<HeadRequest>>
            /\ jobs = NoRun
            /\ \A r \in AllRuns : runs[r] = IdleRun
            /\ intake.pc = "done"
            /\ item.status = "unsupported"
            /\ item.reason = seen.err.message

C28_Witness ==
    /\ probe.head.kind = "rejected"
    /\ probe.head.hop = 2
    /\ probe.pc = "done"
    /\ item.status = "unsupported"

\* C29: the resolver takes the shortcode candidates in order and asks, for
\* each, the signed API query, then the legacy JSON query, then the HTML
\* page; a request that yields media is the last one and the resolver
\* returns that media; a resolver that was not cancelled ends without media
\* only after every strategy of every candidate was asked.
StrategyOrder == <<"graph", "legacy", "html">>
C29_StrategiesInOrderUntilMedia ==
    /\ \A i \in DOMAIN ig.requests :
          /\ ig.requests[i].strategy = StrategyOrder[((i - 1) % 3) + 1]
          /\ ig.requests[i].candidate = ig.candidates[((i - 1) \div 3) + 1]
          /\ ig.requests[i].yield = "media" =>
                /\ i = Len(ig.requests)
                /\ ig.pc = "done"
                /\ ig.result = Media(ig.requests[i].candidate)
    /\ (ig.pc = "done" /\ ig.candidates # <<>> /\ ~ig.aborted) =>
          \/ ig.requests[Len(ig.requests)].yield = "media"
          \/ Len(ig.requests) = 3 * Len(ig.candidates)

\* C30: when every strategy of every candidate was asked and the last one
\* answered without media, the resolver fails with the typed unsupported
\* error, and its reason is the most specific one seen during the whole
\* attempt: one that asks for authorization if such a one was seen, else not
\* found if that was seen, else the generic message.
Rank(reason) ==
    CASE reason \in {AuthReason, RestrictedReason} -> 2
      [] reason = NotFoundReason -> 1
      [] OTHER -> 0
C30_MostSpecificReason ==
    (/\ ig.pc = "done"
     /\ ig.candidates # <<>>
     /\ Len(ig.requests) = 3 * Len(ig.candidates)
     /\ ig.requests[Len(ig.requests)].yield = "none") =>
        /\ ig.result.kind = "threw"
        /\ ig.result.err.name = "InstagramUnsupportedError"
        /\ \A reason \in ig.seen : Rank(reason) <= Rank(ig.result.err.message)
        /\ ig.seen = {} => ig.result.err.message = GenericReason

\* C31: the requests of the VK resolver are, in this order, the GET of the
\* page, three GETs each sent to the Location of the response before it, and
\* the POST; when the first response is not a redirect, one of the three
\* Location headers is missing or the last payload has no manifest URL, the
\* resolver throws the typed unsupported error and sends nothing more.
VkMethods == <<"GET", "GET", "GET", "GET", "POST">>
VkStops(i) ==
    LET res == vk.responses[i]
    IN  /\ res.kind = "response"
        /\ \/ i = 1 /\ ~(res.status \in 300..399)
           \/ i \in 1..3 /\ res.location = NoTarget
           \/ i = 5 /\ ~res.hlsUrl
C36_RequestsPassSafetyCheck ==
    \A i \in DOMAIN vk.requests :
        assertSafeUrl(vk.requests[i].target) \notin {BlockedScheme, BlockedName, BlockedLiteral}

\* C32: a failure that a platform resolver raises itself (a response that is
\* not OK, a payload that does not parse, a missing media or manifest URL),
\* as opposed to one that the request throws, is the typed unsupported error
\* of that resolver, and the job that failed with it ends with status
\* unsupported and the resolver's message as reason.
RequestErrors == {TimeoutError, DnsError, AbortError}
ResolverErrorNames == {"RutubeUnsupportedError", "InstagramUnsupportedError"}
Attempts(run) == Len(run.exits) + (IF run.pc \in {"attempt1", "attempt2"} THEN 1 ELSE 0)
C33_AtMostTwoAttempts ==
    \A r \in AllRuns :
        LET run == runs[r] IN
        /\ Attempts(run) <= 2
        /\ run.pc = "attempt1" => run.exits = <<>>
        /\ (run.pc = "attempt2" \/ Len(run.exits) = 2) =>
              /\ run.exits[1].code = "fragment"
              /\ ~run.exits[1].aborted
              /\ Requested(run.format) # Fallback
        /\ run.pc = "findFile" =>
              /\ run.exits # <<>>
              /\ run.exits[Len(run.exits)].code \in {"zero", "zeroNoFile"}
              /\ ~run.exits[Len(run.exits)].aborted
C33_Witness ==
    \E r \in AllRuns :
        /\ runs[r].pc = "findFile"
        /\ Len(runs[r].exits) = 2
        /\ runs[r].exits[1].code = "fragment"

\* C34: across every interleaving of start and cancel for one item id, at
\* most one run of the item is executing at any time.
C34_OneRunAtATime ==
    \A r1, r2 \in AllRuns : (Running(r1) /\ Running(r2)) => r1 = r2

\* C35: while a run is executing and has not been cancelled, the jobs map
\* holds that run's own token under the item id.
C35_JobsHoldsCurrentRun ==
    \A r \in AllRuns : (Running(r) /\ ~runs[r].aborted) => jobs = r

\* C38: when the delete of an item has begun while the intake still awaits
\* the classification, no run is started for the item; and once the row has
\* been deleted, no later update brings it back.
C38_DeletedDuringIntakeStartsNothing ==
    [][/\ (del # "none" /\ intake.pc \in {"detect", "ytmeta"}) =>
             \A r \in AllRuns : runs[r].pc = "idle" => runs'[r].pc = "idle"
       /\ del = "done" => item' = NoItem]_vars

\* C37: an item whose status is ready has a persisted sizeBytes of at most
\* MAX_DOWNLOAD_BYTES, whatever its type.
C37_ReadyWithinCap ==
    (item # NoItem /\ item.status = "ready") => item.sizeBytes <= MAX_DOWNLOAD_BYTES
C37_Witness ==
    /\ item # NoItem
    /\ item.status = "ready"
    /\ item.type = "youtube"
    /\ item.sizeBytes = MAX_DOWNLOAD_BYTES

\* C39: no request streams video.mp4 while the transcode that produces it is
\* running; the file a request streams is complete.
C39_NoStreamDuringTranscode ==
    \A q \in Requests :
        transcode.requests[q].pc = "stream" =>
            (~transcode.ffmpeg /\ transcode.mp4 = "complete")

====
